---- MODULE Spec2Model ----
(***************************************************************************)
(* Velociraptor: the document splitter (chunker and tree builder) and the  *)
(* in-memory node / tree model it builds on.                               *)
(*                                                                         *)
(* A run is one document going through DocumentSplitter: the extracted     *)
(* pages are split into chunks (one loop iteration per step), the chunks   *)
(* become leaf nodes, and build_tree_structure groups them bottom-up (one  *)
(* grouping round per step) until the root is set.                         *)
(*                                                                         *)
(* Python objects are shared by reference, so the nodes live in one heap   *)
(* (a sequence indexed by the node's id); lists of nodes and the tree's    *)
(* dict hold ids.  uuid4() is modelled as the next unused heap index.      *)
(* Text is a sequence of characters; characters are naturals, 0 is "\n".   *)
(***************************************************************************)
EXTENDS Integers, Sequences, FiniteSets, TLC

\* ------------------------------------------------------------------ bounds
MaxPages == 23
MaxChunkSize == 3
MaxOverlap == 2
MaxSkip == 2

\* --------------------------------------------------------- program constants
DefaultMaxChunkSize == 10
LeafLevel == 1
RootLevel == 0
None == -1
NL == 0

ROOT == "root"
BRANCH == "branch"
LEAF == "leaf"

VARIABLES
    pc,                  \* position of the run
    pages,               \* the extracted pages (input of the chunker)
    max_chunk_size,      \* DocumentSplitter.max_chunk_size
    overlap_pages,       \* DocumentSplitter.overlap_pages
    i,                   \* split_pages_into_chunks: the scan index
    chunks,              \* split_pages_into_chunks: the chunks so far
    leaf_nodes,          \* the list create_leaf_nodes returned (ids)
    heap,                \* the DocumentNode objects, indexed by id
    tree,                \* the DocumentTree being built
    current_level_nodes, \* build_tree_structure: the top level so far (ids)
    current_level,       \* build_tree_structure: the level counter
    pdf,                 \* the PDF read: its page count and the page that failed
    root_paths,          \* history: the root branches taken since the session began
    store,               \* the node store: what the database holds
    nav,                 \* the last navigation call: its argument and its answers
    query_embedding,     \* find_similar_nodes: the query vector
    threshold,           \* find_similar_nodes: the similarity threshold
    top_k,               \* find_similar_nodes: the number of results asked for
    results,             \* find_similar_nodes / search: the list returned
    document_filter,     \* search: the document_id argument (None: every document)
    built,               \* the trees build_tree_structure returned earlier
    cursor               \* how many nodes the running loop over nodes has handled

vars == <<pc, pages, max_chunk_size, overlap_pages, i, chunks, leaf_nodes,
          heap, tree, current_level_nodes, current_level, pdf, root_paths,
          store, nav, query_embedding, threshold, top_k, results,
          document_filter,
          built, cursor>>

\* the variables of the search, which the splitter never touches
search_vars == <<query_embedding, threshold, top_k, results, document_filter>>

\* the variables of the steps that follow the splitter, and of a second build
process_vars == <<built, cursor>>

\* ----------------------------------------------------------------- helpers
Min(a, b) == IF a <= b THEN a ELSE b
Max(a, b) == IF a >= b THEN a ELSE b

Range(s) == {s[k] : k \in 1..Len(s)}

\* Python's min()/max() over a generator: undefined (raises) when it is empty
MinOf(S) == CHOOSE x \in S : \A y \in S : x <= y
MaxOf(S) == CHOOSE x \in S : \A y \in S : x >= y

\* Python truthiness of an Optional[int]: None and 0 are falsy
Truthy(x) == x # None /\ x # 0

RECURSIVE Join(_)
\* '\n\n'.join(texts)
Join(texts) ==
    IF Len(texts) = 0 THEN <<>>
    ELSE IF Len(texts) = 1 THEN texts[1]
    ELSE texts[1] \o <<NL, NL>> \o Join(Tail(texts))

\* ------------------------------------------------------- extract_text_from_pdf
\* A PDF of n pages whose page `failed` (0: none) raised during extraction:
\* the failed page is skipped, the others keep their 1-based page number.
RECURSIVE extract_from(_, _, _)
extract_from(page_num, total, failed) ==
    IF page_num >= total THEN <<>>
    ELSE IF page_num + 1 = failed THEN extract_from(page_num + 1, total, failed)
    ELSE <<[page_number |-> page_num + 1,
            text |-> <<page_num + 1>>,
            char_count |-> 1]>> \o extract_from(page_num + 1, total, failed)

extract_text_from_pdf(total, failed) == extract_from(0, total, failed)

ChunkSizes == (1..MaxChunkSize) \cup {DefaultMaxChunkSize}

\* ------------------------------------------------------------- DocumentNode
\* Optional[List[float]]: None, or a list of numbers (the empty list included)
NoEmbedding == [present |-> FALSE, vec |-> <<>>]
Embedding(v) == [present |-> TRUE, vec |-> v]

\* Optional[str] for a document_id argument: None, or a string
NoDocumentId == [present |-> FALSE, id |-> ""]
DocumentId(d) == [present |-> TRUE, id |-> d]

\* the dataclass: summary "", embedding None, parent_id None and children_ids []
\* unless given
DocumentNode(id, content, node_type, document_id, level, page_start, page_end, metadata) ==
    [id |-> id, content |-> content, summary |-> <<>>, embedding |-> NoEmbedding,
     node_type |-> node_type,
     parent_id |-> None, children_ids |-> <<>>, document_id |-> document_id,
     level |-> level, page_start |-> page_start, page_end |-> page_end,
     metadata |-> metadata]

\* uuid4(): an identifier no existing node has
uuid4(h) == Len(h) + 1

is_leaf(n) == Len(n.children_ids) = 0
is_root(n) == n.parent_id = None

\* add_child that records the child but forgets child_node.parent_id = self.id
add_child_NoParent(h, p, c) ==
    IF h[c].id \notin Range(h[p].children_ids)
    THEN LET h1 == [h EXCEPT ![p].children_ids = Append(@, h[c].id)]
             h2 == [h1 EXCEPT ![c].level = h1[p].level + 1]
         IN [h2 EXCEPT ![p].node_type =
                  IF @ = LEAF /\ Len(h2[p].children_ids) > 0 THEN BRANCH ELSE @]
    ELSE h

\* add_child that sets the child's fields but forgets children_ids.append
add_child_NoAppend(h, p, c) ==
    IF h[c].id \notin Range(h[p].children_ids)
    THEN [h EXCEPT ![c].parent_id = h[p].id, ![c].level = h[p].level + 1]
    ELSE h

\* DocumentNode.add_child on the objects p (self) and c (child_node)
add_child(h, p, c) ==
    IF h[c].id \notin Range(h[p].children_ids)
    THEN LET h1 == [h EXCEPT ![p].children_ids = Append(@, h[c].id)]
             h2 == [h1 EXCEPT ![c].parent_id = h1[p].id,
                              ![c].level = h1[p].level + 1]
         IN [h2 EXCEPT ![p].node_type =
                  IF @ = LEAF /\ Len(h2[p].children_ids) > 0 THEN BRANCH ELSE @]
    ELSE h

RECURSIVE add_children(_, _, _)
\* for child in group: parent.add_child(child)
add_children(h, p, group) ==
    IF Len(group) = 0 THEN h
    ELSE add_children(add_child(h, p, Head(group)), p, Tail(group))

\* ------------------------------------------------------------- DocumentTree
DocumentTree(document_id) ==
    [document_id |-> document_id, nodes |-> <<>>, root_node_id |-> None]

NoTree == DocumentTree("")

\* a world is the heap together with one tree: w = [heap, tree]
\* DocumentTree.add_node(node): the dict keeps insertion order
add_node(w, n) ==
    LET id == w.heap[n].id
        nodes1 == IF id \in Range(w.tree.nodes) THEN w.tree.nodes
                  ELSE Append(w.tree.nodes, id)
        becomes_root == w.tree.root_node_id = None \/ is_root(w.heap[n])
    IN [heap |-> IF becomes_root THEN [w.heap EXCEPT ![n].node_type = ROOT]
                 ELSE w.heap,
        tree |-> [w.tree EXCEPT !.nodes = nodes1,
                                !.root_node_id = IF becomes_root THEN id ELSE @]]

RECURSIVE add_nodes(_, _)
\* for node in nodes: tree.add_node(node)
add_nodes(w, ns) ==
    IF Len(ns) = 0 THEN w
    ELSE add_nodes(add_node(w, Head(ns)), Tail(ns))

\* ----------------------------------------------------- split_pages_into_chunks
\* chunk_end = min(i + self.max_chunk_size, total_pages)
ChunkEnd(k, size, total_pages) == Min(k + size, total_pages)

\* the chunk dict built from pages[k:chunk_end] (k is 0-based)
MakeChunk(ps, k, chunk_end) ==
    LET chunk_pages == SubSeq(ps, k + 1, chunk_end)
        combined_text == Join([j \in 1..Len(chunk_pages) |-> chunk_pages[j].text])
    IN [page_start |-> chunk_pages[1].page_number,
        page_end |-> chunk_pages[Len(chunk_pages)].page_number,
        text |-> combined_text,
        char_count |-> Len(combined_text),
        page_count |-> Len(chunk_pages)]

\* a next start that leaves a one-page gap after a chunk when nothing overlaps
NextStart_Gap(k, chunk_end, overlap) ==
    IF overlap > 0 THEN Max(k + 1, chunk_end - overlap) ELSE chunk_end + 1

\* a next start that forgets the overlap
NextStart_NoOverlap(k, chunk_end, overlap) == chunk_end

\* a next start without the "at least one page forward" clamp
NextStart_NoClamp(k, chunk_end, overlap) ==
    IF overlap > 0 THEN chunk_end - overlap ELSE chunk_end

\* i = max(i + 1, chunk_end - overlap) if overlap > 0 else chunk_end
NextStart(k, chunk_end, overlap) ==
    IF overlap > 0 THEN Max(k + 1, chunk_end - overlap) ELSE chunk_end

\* ----------------------------------------------------------- create_leaf_nodes
RECURSIVE leaves_from_Reversed(_, _, _, _)
\* the loop of create_leaf_nodes with each new node inserted at the front
leaves_from_Reversed(h, cs, document_id, leaf_list) ==
    IF Len(cs) = 0 THEN [heap |-> h, nodes |-> leaf_list]
    ELSE LET chunk == Head(cs)
             node == DocumentNode(uuid4(h), chunk.text, LEAF, document_id, LeafLevel,
                                  chunk.page_start, chunk.page_end,
                                  [char_count |-> chunk.char_count,
                                   page_count |-> chunk.page_count])
         IN leaves_from_Reversed(Append(h, node), Tail(cs), document_id,
                                 <<node.id>> \o leaf_list)

RECURSIVE leaves_from(_, _, _, _)
\* the loop "for chunk in chunks": one new leaf per chunk, appended to the
\* heap h and to leaf_list
leaves_from(h, cs, document_id, leaf_list) ==
    IF Len(cs) = 0 THEN [heap |-> h, nodes |-> leaf_list]
    ELSE LET chunk == Head(cs)
             node == DocumentNode(uuid4(h), chunk.text, LEAF, document_id, LeafLevel,
                                  chunk.page_start, chunk.page_end,
                                  [char_count |-> chunk.char_count,
                                   page_count |-> chunk.page_count])
         IN leaves_from(Append(h, node), Tail(cs), document_id,
                        Append(leaf_list, node.id))

\* returns the heap with the new leaves and the list of them
create_leaf_nodes(h, cs, document_id) == leaves_from(h, cs, document_id, <<>>)

\* --------------------------------------------------------- create_parent_nodes
\* a group size with the lower clamp at 1 instead of 2
GroupSize_Min1(n) == Min(5, Max(1, n \div 3))

\* a group size that halves instead of taking a third
GroupSize_Half(n) == Min(5, Max(2, n \div 2))

\* group_size = min(5, max(2, len(child_nodes) // 3))
GroupSize(n) == Min(5, Max(2, n \div 3))

RECURSIVE SumPageCount(_, _)
\* sum(node.metadata.get('page_count', 1) for node in group)
SumPageCount(h, group) ==
    IF Len(group) = 0 THEN 0
    ELSE (IF "page_count" \in DOMAIN h[Head(group)].metadata
          THEN h[Head(group)].metadata.page_count ELSE 1)
         + SumPageCount(h, Tail(group))

\* min(node.page_start for node in group if node.page_start)
GroupPageStart(h, group) ==
    MinOf({h[c].page_start : c \in {d \in Range(group) : Truthy(h[d].page_start)}})

\* a parent that ends where its first child ends
GroupPageEnd_FirstChild(h, group) == h[group[1]].page_end

\* max(node.page_end for node in group if node.page_end)
GroupPageEnd(h, group) ==
    MaxOf({h[c].page_end : c \in {d \in Range(group) : Truthy(h[d].page_end)}})

\* group = child_nodes[k:k + group_size]
Group(child_nodes, k, group_size) ==
    SubSeq(child_nodes, k + 1, Min(k + group_size, Len(child_nodes)))

RECURSIVE group_from(_, _, _, _, _, _, _)
\* the loop "for i in range(0, len(child_nodes), group_size)" from offset k on
group_from(h, child_nodes, document_id, level, group_size, k, parent_nodes) ==
    IF k >= Len(child_nodes) THEN [heap |-> h, nodes |-> parent_nodes]
    ELSE LET group == Group(child_nodes, k, group_size)
             parent_node == DocumentNode(uuid4(h), <<>>, BRANCH, document_id, level,
                                GroupPageStart(h, group), GroupPageEnd(h, group),
                                [child_count |-> Len(group),
                                 total_pages |-> SumPageCount(h, group)])
         IN group_from(add_children(Append(h, parent_node), parent_node.id, group),
                       child_nodes, document_id, level, group_size, k + group_size,
                       Append(parent_nodes, parent_node.id))

\* a grouping that pairs the nodes up once the program holds more nodes than
\* the level it groups: a result that depends on what was built before
create_parent_nodes_CountsHeap(h, child_nodes, document_id, level) ==
    IF Len(child_nodes) <= 1 THEN [heap |-> h, nodes |-> child_nodes]
    ELSE group_from(h, child_nodes, document_id, level,
                    IF Len(h) > 2 * Len(child_nodes) THEN 2
                    ELSE GroupSize(Len(child_nodes)), 0, <<>>)

create_parent_nodes(h, child_nodes, document_id, level) ==
    IF Len(child_nodes) <= 1 THEN [heap |-> h, nodes |-> child_nodes]
    ELSE group_from(h, child_nodes, document_id, level,
                    GroupSize(Len(child_nodes)), 0, <<>>)

\* -------------------------------------------------------- build_tree_structure
\* str(uuid4()) of process_document: one opaque document identifier
DocId == "doc-1"

\* a loop that stops grouping one round early
LoopCond_Two(n) == n > 2

\* while len(current_level_nodes) > 1
LoopCond(n) == n > 1

\* the else branch: a new root node that adopts every top-level node
SyntheticRoot(h, top, document_id) ==
    LET root_node == DocumentNode(uuid4(h), <<>>, ROOT, document_id, RootLevel,
                                  GroupPageStart(h, top), GroupPageEnd(h, top),
                                  [child_count |-> Len(top),
                                   is_synthetic_root |-> TRUE])
    IN [heap |-> add_children(Append(h, root_node), root_node.id, top),
        nodes |-> <<root_node.id>>]

\* --------------------------------------------------------------- the store
\* the database: the Document entries, the DocumentNode entries by id, and the
\* CONTAINS relation between them
EmptyStore == [documents |-> {}, nodes |-> <<>>, contains |-> {}]

\* json.dumps(node.metadata): a string that encodes the dictionary
json_dumps(metadata) == [json |-> metadata]

\* _store_node_query: the properties MERGE ... SET writes for one node
stored_node(n) == [n EXCEPT !.metadata = json_dumps(n.metadata)]

\* store_document_tree: the Document entry is merged, every node of the tree is
\* merged under its id and connected to the document. (The HAS_CHILD and
\* CHILD_OF relationships written as well are read by no operation modelled
\* here: navigation goes by the parent_id and children_ids properties.)
store_document_tree(s, h, t) ==
    LET ids == Range(t.nodes)
    IN [documents |-> {d \in s.documents : d.id # t.document_id}
                      \cup {[id |-> t.document_id, root_node_id |-> t.root_node_id]},
        nodes |-> [id \in DOMAIN s.nodes \cup {h[n].id : n \in ids} |->
                     IF \E n \in ids : h[n].id = id
                     THEN stored_node(h[CHOOSE n \in ids : h[n].id = id])
                     ELSE s.nodes[id]],
        contains |-> s.contains \cup {<<t.document_id, h[n].id>> : n \in ids}]

\* ------------------------------------------------------------------ the run
\* no navigation call has been made
NoCall == [node_id |-> None]

DefaultThreshold == [num |-> 7, den |-> 10]
DefaultTopK == 5

Init ==
    /\ pdf \in [total : 0..MaxPages, failed : 0..MaxSkip]
    /\ pages = extract_text_from_pdf(pdf.total, pdf.failed)
    /\ max_chunk_size \in ChunkSizes
    /\ overlap_pages \in 0..MaxOverlap
    /\ pc = "split"
    /\ i = 0
    /\ chunks = <<>>
    /\ leaf_nodes = <<>>
    /\ heap = <<>>
    /\ tree = NoTree
    /\ current_level_nodes = <<>>
    /\ current_level = None
    /\ root_paths = {}
    /\ store = EmptyStore
    /\ nav = NoCall
    /\ query_embedding = NoEmbedding
    /\ threshold = DefaultThreshold
    /\ top_k = DefaultTopK
    /\ results = <<>>
    /\ document_filter = NoDocumentId
    /\ built = <<>>
    /\ cursor = 0

\* one iteration of "while i < total_pages"
SplitStep ==
    /\ pc = "split"
    /\ i < Len(pages)
    /\ LET chunk_end == ChunkEnd(i, max_chunk_size, Len(pages))
       IN /\ chunks' = Append(chunks, MakeChunk(pages, i, chunk_end))
          /\ i' = NextStart(i, chunk_end, overlap_pages)
    /\ UNCHANGED <<pc, pages, max_chunk_size, overlap_pages, leaf_nodes, heap, tree,
                   current_level_nodes, current_level, pdf, root_paths>>
    /\ UNCHANGED <<store, nav, search_vars, process_vars>>

\* "if not pages: return []" and the loop's exit: "return chunks"
SplitReturn ==
    /\ pc = "split"
    /\ ~(i < Len(pages))
    /\ pc' = "leaves"
    /\ UNCHANGED <<pages, max_chunk_size, overlap_pages, i, chunks, leaf_nodes, heap,
                   tree, current_level_nodes, current_level, pdf, root_paths>>
    /\ UNCHANGED <<store, nav, search_vars, process_vars>>

CreateLeafNodes ==
    /\ pc = "leaves"
    /\ LET r == create_leaf_nodes(heap, chunks, DocId)
       IN /\ heap' = r.heap
          /\ leaf_nodes' = r.nodes
    /\ pc' = "build"
    /\ UNCHANGED <<pages, max_chunk_size, overlap_pages, i, chunks, tree,
                   current_level_nodes, current_level, pdf, root_paths>>
    /\ UNCHANGED <<store, nav, search_vars, process_vars>>

\* an emptiness test that never holds: the early return is missing
IsEmpty_Never(l) == FALSE

\* "if not leaf_nodes": a list is falsy exactly when it has no entries
IsEmpty(l) == Len(l) = 0

\* build_tree_structure up to the loop: the empty case, or the leaves added
BuildStart ==
    /\ pc = "build"
    /\ IF IsEmpty(leaf_nodes)
       THEN /\ tree' = DocumentTree(DocId)
            /\ pc' = "done"
            /\ UNCHANGED <<heap, current_level_nodes, current_level>>
       ELSE LET w == add_nodes([heap |-> heap, tree |-> DocumentTree(DocId)],
                               leaf_nodes)
            IN /\ heap' = w.heap
               /\ tree' = w.tree
               /\ current_level_nodes' = leaf_nodes
               /\ current_level' = 1
               /\ pc' = "group"
    /\ UNCHANGED <<pages, max_chunk_size, overlap_pages, i, chunks, leaf_nodes, pdf,
                   root_paths>>
    /\ UNCHANGED <<store, nav, search_vars, process_vars>>

\* one iteration of "while len(current_level_nodes) > 1"
GroupRound ==
    /\ pc = "group"
    /\ LoopCond(Len(current_level_nodes))
    /\ LET r == create_parent_nodes(heap, current_level_nodes, DocId, current_level)
           w == add_nodes([heap |-> r.heap, tree |-> tree], r.nodes)
       IN /\ heap' = w.heap
          /\ tree' = w.tree
          /\ current_level_nodes' = r.nodes
    /\ current_level' = current_level + 1
    /\ UNCHANGED <<pc, pages, max_chunk_size, overlap_pages, i, chunks, leaf_nodes,
                   pdf, root_paths>>
    /\ UNCHANGED <<store, nav, search_vars, process_vars>>

\* after the loop: promote the sole node, or create a root above the rest
FinishRoot ==
    /\ pc = "group"
    /\ ~LoopCond(Len(current_level_nodes))
    /\ IF Len(current_level_nodes) = 1
       THEN LET root_node == current_level_nodes[1]
            IN /\ heap' = [heap EXCEPT ![root_node].node_type = ROOT,
                                       ![root_node].level = RootLevel]
               /\ tree' = [tree EXCEPT !.root_node_id = heap[root_node].id]
               /\ root_paths' = root_paths \cup {"natural"}
       ELSE LET r == SyntheticRoot(heap, current_level_nodes, DocId)
                w == add_nodes([heap |-> r.heap, tree |-> tree], r.nodes)
            IN /\ heap' = w.heap
               /\ tree' = [w.tree EXCEPT !.root_node_id = w.heap[r.nodes[1]].id]
               /\ root_paths' = root_paths \cup {"synthetic"}
    /\ pc' = "done"
    /\ UNCHANGED <<pages, max_chunk_size, overlap_pages, i, chunks, leaf_nodes,
                   current_level_nodes, current_level, pdf>>
    /\ UNCHANGED <<store, nav, search_vars, process_vars>>

\* process_document, step 4: the built tree is written to the database
StoreDocumentTree ==
    /\ pc = "done"
    /\ store' = store_document_tree(store, heap, tree)
    /\ pc' = "stored"
    /\ UNCHANGED <<pages, max_chunk_size, overlap_pages, i, chunks, leaf_nodes, heap,
                   tree, current_level_nodes, current_level, pdf, root_paths, nav>>
    /\ UNCHANGED <<search_vars, process_vars>>

\* =============================================================== TreeNavigator
\* the value of an absent node (Python's None where a DocumentNode is expected)
NoNode == [id |-> None]

\* Neo4jConnector.get_node_by_id: the stored node with that id, or None
get_node_by_id(s, node_id) ==
    IF node_id \in DOMAIN s.nodes THEN s.nodes[node_id] ELSE NoNode

\* list.index(x): the first position of x (counted from 1), 0 for ValueError
IndexOf(list, x) ==
    IF \E k \in 1..Len(list) : list[k] = x
    THEN CHOOSE k \in 1..Len(list) :
             list[k] = x /\ \A j \in 1..(k - 1) : list[j] # x
    ELSE 0

\* a parent lookup that hands back the node it was asked about
navigate_to_parent_Self(s, node_id) == get_node_by_id(s, node_id)

navigate_to_parent(s, node_id) ==
    LET node == get_node_by_id(s, node_id)
    IN IF node = NoNode \/ ~Truthy(node.parent_id) THEN NoNode
       ELSE get_node_by_id(s, node.parent_id)

RECURSIVE children_from(_, _, _)
\* the loop "for child_id in node.children_ids": children the store does not
\* return are skipped
children_from(s, child_ids, children) ==
    IF Len(child_ids) = 0 THEN children
    ELSE LET child == get_node_by_id(s, Head(child_ids))
         IN children_from(s, Tail(child_ids),
                          IF child # NoNode THEN Append(children, child)
                          ELSE children)

navigate_to_children(s, node_id) ==
    LET node == get_node_by_id(s, node_id)
    IN IF node = NoNode THEN <<>>
       ELSE children_from(s, node.children_ids, <<>>)

navigate_to_next_sibling(s, node_id) ==
    LET node == get_node_by_id(s, node_id)
    IN IF node = NoNode \/ ~Truthy(node.parent_id) THEN NoNode
       ELSE LET parent == get_node_by_id(s, node.parent_id)
            IN IF parent = NoNode THEN NoNode
               ELSE LET current_index == IndexOf(parent.children_ids, node_id)
                    IN IF current_index = 0 THEN NoNode
                       ELSE IF current_index + 1 <= Len(parent.children_ids)
                       THEN get_node_by_id(s, parent.children_ids[current_index + 1])
                       ELSE NoNode

\* a previous sibling that accepts the first position too: Python's index -1
\* is the last entry of the list
navigate_to_previous_sibling_Wrap(s, node_id) ==
    LET node == get_node_by_id(s, node_id)
    IN IF node = NoNode \/ ~Truthy(node.parent_id) THEN NoNode
       ELSE LET parent == get_node_by_id(s, node.parent_id)
            IN IF parent = NoNode THEN NoNode
               ELSE LET current_index == IndexOf(parent.children_ids, node_id)
                    IN IF current_index = 0 THEN NoNode
                       ELSE IF current_index > 1
                       THEN get_node_by_id(s, parent.children_ids[current_index - 1])
                       ELSE get_node_by_id(s,
                                parent.children_ids[Len(parent.children_ids)])

navigate_to_previous_sibling(s, node_id) ==
    LET node == get_node_by_id(s, node_id)
    IN IF node = NoNode \/ ~Truthy(node.parent_id) THEN NoNode
       ELSE LET parent == get_node_by_id(s, node.parent_id)
            IN IF parent = NoNode THEN NoNode
               ELSE LET current_index == IndexOf(parent.children_ids, node_id)
                    IN IF current_index = 0 THEN NoNode
                       ELSE IF current_index > 1
                       THEN get_node_by_id(s, parent.children_ids[current_index - 1])
                       ELSE NoNode

\* DocumentNode.get_page_range: "N/A", "Page a" or "Pages a-b"
get_page_range(n) ==
    IF n.page_start = None THEN <<"N/A">>
    ELSE IF n.page_end = None \/ n.page_start = n.page_end
    THEN <<"Page", n.page_start>>
    ELSE <<"Pages", n.page_start, n.page_end>>

\* the text "Section" (its character codes)
SectionText == <<83, 101, 99, 116, 105, 111, 110>>

\* summary or "Section"
summary_or_section(n) == IF Len(n.summary) > 0 THEN n.summary ELSE SectionText

RECURSIVE Reverse(_)
Reverse(list) ==
    IF Len(list) = 0 THEN <<>> ELSE Append(Reverse(Tail(list)), Head(list))

RECURSIVE path_from(_, _, _)
\* the loop "while current_node" of get_breadcrumb_path
path_from(s, current_node, path) ==
    IF current_node = NoNode THEN path
    ELSE LET path1 == Append(path, [id |-> current_node.id,
                                    summary |-> summary_or_section(current_node),
                                    page_range |-> get_page_range(current_node),
                                    level |-> current_node.level])
         IN IF Truthy(current_node.parent_id)
            THEN path_from(s, get_node_by_id(s, current_node.parent_id), path1)
            ELSE path1

\* a breadcrumb that is returned as collected, from the node up to the root
get_breadcrumb_path_NoReverse(s, node_id) ==
    path_from(s, get_node_by_id(s, node_id), <<>>)

get_breadcrumb_path(s, node_id) ==
    Reverse(path_from(s, get_node_by_id(s, node_id), <<>>))

\* the empty dictionary
EmptyDict == [k \in {} |-> None]

\* the dictionary entry of an absent neighbour
NoEntry == [id |-> None]

\* {"id", "summary", "page_range"} of a neighbour, or None
entry_of(n) ==
    IF n = NoNode THEN NoEntry
    ELSE [id |-> n.id, summary |-> n.summary, page_range |-> get_page_range(n)]

\* a navigation context that is filled in without looking whether the node exists
get_navigation_context_NoGuard(s, node_id) ==
    [current |-> entry_of(get_node_by_id(s, node_id)),
     parent |-> entry_of(navigate_to_parent(s, node_id)),
     children |-> <<>>,
     next_sibling |-> NoEntry,
     previous_sibling |-> NoEntry,
     breadcrumb_path |-> get_breadcrumb_path(s, node_id)]

get_navigation_context(s, node_id) ==
    LET node == get_node_by_id(s, node_id)
        children == navigate_to_children(s, node_id)
    IN IF node = NoNode THEN EmptyDict
       ELSE [current |-> [id |-> node.id, summary |-> node.summary,
                          page_range |-> get_page_range(node),
                          level |-> node.level, node_type |-> node.node_type],
             parent |-> entry_of(navigate_to_parent(s, node_id)),
             children |-> [k \in 1..Len(children) |-> entry_of(children[k])],
             next_sibling |-> entry_of(navigate_to_next_sibling(s, node_id)),
             previous_sibling |-> entry_of(navigate_to_previous_sibling(s, node_id)),
             breadcrumb_path |-> get_breadcrumb_path(s, node_id)]

RECURSIVE _find_first_leaf_in_subtree(_, _)
_find_first_leaf_in_subtree(s, node) ==
    IF is_leaf(node) THEN node
    ELSE LET first_child == get_node_by_id(s, node.children_ids[1])
         IN IF first_child # NoNode
            THEN _find_first_leaf_in_subtree(s, first_child)
            ELSE NoNode

RECURSIVE _find_last_leaf_in_subtree(_, _)
_find_last_leaf_in_subtree(s, node) ==
    IF is_leaf(node) THEN node
    ELSE LET last_child == get_node_by_id(s, node.children_ids[Len(node.children_ids)])
         IN IF last_child # NoNode
            THEN _find_last_leaf_in_subtree(s, last_child)
            ELSE NoNode

\* the loop of find_next_leaf_node giving up at the first node without a next
\* sibling instead of going up to its parent
next_leaf_up_NoClimb(s, current_node) ==
    IF current_node = NoNode THEN NoNode
    ELSE LET next_sibling == navigate_to_next_sibling(s, current_node.id)
         IN IF next_sibling # NoNode
            THEN _find_first_leaf_in_subtree(s, next_sibling)
            ELSE NoNode

RECURSIVE next_leaf_up(_, _)
\* the loop "while current_node" of find_next_leaf_node
next_leaf_up(s, current_node) ==
    IF current_node = NoNode THEN NoNode
    ELSE LET next_sibling == navigate_to_next_sibling(s, current_node.id)
         IN IF next_sibling # NoNode
            THEN _find_first_leaf_in_subtree(s, next_sibling)
            ELSE next_leaf_up(s, navigate_to_parent(s, current_node.id))

find_next_leaf_node(s, node_id) ==
    LET node == get_node_by_id(s, node_id)
        first_child == get_node_by_id(s, node.children_ids[1])
    IN IF node = NoNode THEN NoNode
       ELSE IF Len(node.children_ids) > 0 /\ first_child # NoNode
       THEN _find_first_leaf_in_subtree(s, first_child)
       ELSE next_leaf_up(s, node)

find_previous_leaf_node(s, node_id) ==
    LET node == get_node_by_id(s, node_id)
        prev_sibling == navigate_to_previous_sibling(s, node_id)
        parent == navigate_to_parent(s, node_id)
    IN IF node = NoNode THEN NoNode
       ELSE IF prev_sibling # NoNode
       THEN _find_last_leaf_in_subtree(s, prev_sibling)
       ELSE IF parent # NoNode /\ is_leaf(parent) THEN parent
       ELSE NoNode

\* ===================================================== DocumentTree: navigation
\* DocumentTree.get_node: self.nodes.get(node_id), in the world w = [heap, tree]
get_node(w, node_id) ==
    IF node_id \in Range(w.tree.nodes) THEN w.heap[node_id] ELSE NoNode

get_root_node(w) ==
    IF Truthy(w.tree.root_node_id) THEN get_node(w, w.tree.root_node_id) ELSE NoNode

RECURSIVE known_children(_, _, _)
\* [self.nodes[child_id] for child_id in node.children_ids if child_id in self.nodes]
known_children(w, child_ids, children) ==
    IF Len(child_ids) = 0 THEN children
    ELSE known_children(w, Tail(child_ids),
                        IF Head(child_ids) \in Range(w.tree.nodes)
                        THEN Append(children, w.heap[Head(child_ids)])
                        ELSE children)

\* a children list that leaves out the first entry
get_children_SkipFirst(w, node_id) ==
    LET node == get_node(w, node_id)
    IN IF node = NoNode \/ Len(node.children_ids) = 0 THEN <<>>
       ELSE known_children(w, Tail(node.children_ids), <<>>)

get_children(w, node_id) ==
    LET node == get_node(w, node_id)
    IN IF node = NoNode THEN <<>>
       ELSE known_children(w, node.children_ids, <<>>)

get_parent(w, node_id) ==
    LET node == get_node(w, node_id)
    IN IF node = NoNode \/ ~Truthy(node.parent_id) THEN NoNode
       ELSE get_node(w, node.parent_id)

get_next_sibling(w, node_id) ==
    LET node == get_node(w, node_id)
        parent == get_parent(w, node_id)
        current_index == IndexOf(parent.children_ids, node_id)
    IN IF node = NoNode \/ ~Truthy(node.parent_id) THEN NoNode
       ELSE IF parent = NoNode THEN NoNode
       ELSE IF current_index = 0 THEN NoNode
       ELSE IF current_index + 1 <= Len(parent.children_ids)
       THEN get_node(w, parent.children_ids[current_index + 1])
       ELSE NoNode

get_previous_sibling(w, node_id) ==
    LET node == get_node(w, node_id)
        parent == get_parent(w, node_id)
        current_index == IndexOf(parent.children_ids, node_id)
    IN IF node = NoNode \/ ~Truthy(node.parent_id) THEN NoNode
       ELSE IF parent = NoNode THEN NoNode
       ELSE IF current_index = 0 THEN NoNode
       ELSE IF current_index > 1
       THEN get_node(w, parent.children_ids[current_index - 1])
       ELSE NoNode

RECURSIVE path_to_root_from(_, _, _)
\* the loop "while current_node" of get_path_to_root
path_to_root_from(w, current_node, path) ==
    IF current_node = NoNode THEN path
    ELSE IF Truthy(current_node.parent_id)
    THEN path_to_root_from(w, get_node(w, current_node.parent_id),
                           Append(path, current_node))
    ELSE Append(path, current_node)

get_path_to_root(w, node_id) == path_to_root_from(w, get_node(w, node_id), <<>>)

\* ------------------------------------------------------- the document outline
RECURSIVE SetToSeq(_)
\* the members of a set of numbers in increasing order
SetToSeq(S) ==
    IF S = {} THEN <<>>
    ELSE LET m == MinOf(S) IN <<m>> \o SetToSeq(S \ {m})

\* the value of an absent tree (get_document_tree returned None)
NoWorld == [absent |-> TRUE]

\* Neo4jConnector.get_document_tree: None when no Document entry has that id,
\* else a tree of the nodes the document CONTAINS, read back from the store
get_document_tree(s, document_id) ==
    IF ~\E d \in s.documents : d.id = document_id THEN NoWorld
    ELSE LET record == CHOOSE d \in s.documents : d.id = document_id
             ids == {c[2] : c \in {c \in s.contains : c[1] = document_id}}
         IN [heap |-> [id \in ids |-> s.nodes[id]],
             tree |-> [document_id |-> document_id, nodes |-> SetToSeq(ids),
                       root_node_id |-> record.root_node_id]]

RECURSIVE _build_outline_recursive(_, _)
RECURSIVE outline_of_children(_, _, _)
\* the loop "for child in children": each child's outline is appended
outline_of_children(w, children, items) ==
    IF Len(children) = 0 THEN items
    ELSE outline_of_children(w, Tail(children),
                             items \o _build_outline_recursive(w, Head(children)))

_build_outline_recursive(w, node) ==
    <<[id |-> node.id,
       summary |-> summary_or_section(node),
       page_range |-> get_page_range(node),
       level |-> node.level,
       children |-> outline_of_children(w, get_children(w, node.id), <<>>)]>>

get_document_outline(s, document_id) ==
    LET w == get_document_tree(s, document_id)
        root == get_root_node(w)
    IN IF w = NoWorld THEN <<>>
       ELSE IF root = NoNode THEN <<>>
       ELSE _build_outline_recursive(w, root)

\* ==================================================== the navigation requests
\* the identifiers a caller may pass: every stored id, the empty string, None
\* and an identifier no node has
NodeIdInputs == DOMAIN store.nodes \cup {0, None, Len(store.nodes) + 1}

\* the document identifiers a caller may pass: the document's and an unknown one
DocumentIdInputs == {DocId, "doc-unknown"}

\* a caller asks the navigator about node_id: every node operation is called
\* with it; none of them writes to the store
Navigate ==
    /\ pc = "stored"
    /\ \E node_id \in NodeIdInputs :
          nav' = [node_id |-> node_id,
                  parent |-> navigate_to_parent(store, node_id),
                  children |-> navigate_to_children(store, node_id),
                  next_sibling |-> navigate_to_next_sibling(store, node_id),
                  previous_sibling |-> navigate_to_previous_sibling(store, node_id),
                  breadcrumb_path |-> get_breadcrumb_path(store, node_id),
                  navigation_context |-> get_navigation_context(store, node_id),
                  next_leaf |-> find_next_leaf_node(store, node_id),
                  previous_leaf |-> find_previous_leaf_node(store, node_id)]
    /\ pc' = "navigated"
    /\ UNCHANGED <<pages, max_chunk_size, overlap_pages, i, chunks, leaf_nodes, heap,
                   tree, current_level_nodes, current_level, pdf, root_paths, store>>
    /\ UNCHANGED <<search_vars, process_vars>>

\* a caller asks for the outline of document_id
GetDocumentOutline ==
    /\ pc = "stored"
    /\ \E document_id \in DocumentIdInputs :
          nav' = [document_id |-> document_id,
                  outline |-> get_document_outline(store, document_id)]
    /\ pc' = "outlined"
    /\ UNCHANGED <<pages, max_chunk_size, overlap_pages, i, chunks, leaf_nodes, heap,
                   tree, current_level_nodes, current_level, pdf, root_paths, store>>
    /\ UNCHANGED <<search_vars, process_vars>>

Next ==
    \/ SplitStep
    \/ SplitReturn
    \/ CreateLeafNodes
    \/ BuildStart
    \/ GroupRound
    \/ FinishRoot
    \/ StoreDocumentTree
    \/ Navigate
    \/ GetDocumentOutline

Spec == Init /\ [][Next]_vars

\* A session that processes documents of 0, 1, 2, ... pages one after another
\* with the same splitter: the next process_document call starts afresh.
NextDocument ==
    /\ pc = "done"
    /\ pdf.total < MaxPages
    /\ pdf' = [pdf EXCEPT !.total = @ + 1]
    /\ pages' = extract_text_from_pdf(pdf.total + 1, pdf.failed)
    /\ pc' = "split"
    /\ i' = 0
    /\ chunks' = <<>>
    /\ leaf_nodes' = <<>>
    /\ heap' = <<>>
    /\ tree' = NoTree
    /\ current_level_nodes' = <<>>
    /\ current_level' = None
    /\ UNCHANGED <<max_chunk_size, overlap_pages, root_paths>>
    /\ UNCHANGED <<store, nav, search_vars, process_vars>>

InitSession == Init /\ pdf.total = 0

NextSession == Next \/ NextDocument

SpecSession == InitSession /\ [][NextSession]_vars

\* ======================================================= assembling a tree
\* the number of nodes a caller assembles by hand
MaxAssembled == 3

\* the identifiers a caller-made node may name as its parent or child
AssemblyIds == 1..MaxAssembled

\* DocumentNode.to_dict: the dictionary of the node's fields
node_to_dict(n) ==
    [id |-> n.id, content |-> n.content, summary |-> n.summary,
     embedding |-> n.embedding, node_type |-> n.node_type,
     parent_id |-> n.parent_id, children_ids |-> n.children_ids,
     document_id |-> n.document_id, level |-> n.level,
     page_start |-> n.page_start, page_end |-> n.page_end,
     metadata |-> n.metadata]

\* DocumentNode.from_dict: a new node with the dictionary's fields
node_from_dict(data) ==
    [id |-> data.id, content |-> data.content, summary |-> data.summary,
     embedding |-> data.embedding, node_type |-> data.node_type,
     parent_id |-> data.parent_id, children_ids |-> data.children_ids,
     document_id |-> data.document_id, level |-> data.level,
     page_start |-> data.page_start, page_end |-> data.page_end,
     metadata |-> data.metadata]

\* DocumentTree.to_dict: "nodes" is the list of (node_id, node dictionary) in
\* the order of tree.nodes
to_dict(w) ==
    [document_id |-> w.tree.document_id,
     root_node_id |-> w.tree.root_node_id,
     nodes |-> [k \in 1..Len(w.tree.nodes) |->
                  [node_id |-> w.tree.nodes[k],
                   node_data |-> node_to_dict(w.heap[w.tree.nodes[k]])]]]

\* DocumentTree.from_dict: root_node_id is taken as given and every entry of
\* "nodes" becomes a node of the tree under its key
from_dict(data) ==
    LET keys == [k \in 1..Len(data.nodes) |-> data.nodes[k].node_id]
    IN [heap |-> [id \in Range(keys) |->
                    node_from_dict(
                        data.nodes[CHOOSE k \in 1..Len(data.nodes) :
                                       data.nodes[k].node_id = id].node_data)],
        tree |-> [document_id |-> data.document_id, nodes |-> keys,
                  root_node_id |-> data.root_node_id]]

\* a caller makes a node, naming any parent and at most one child, and adds it
\* to the tree
AddNode ==
    /\ pc = "assemble"
    /\ Len(heap) < MaxAssembled
    /\ \E parent_id \in AssemblyIds \cup {None},
          children_ids \in {<<>>} \cup {<<c>> : c \in AssemblyIds} :
          LET node == [DocumentNode(uuid4(heap), <<>>, LEAF, DocId, 0, None, None,
                                    EmptyDict)
                           EXCEPT !.parent_id = parent_id,
                                  !.children_ids = children_ids]
              w == add_node([heap |-> Append(heap, node), tree |-> tree], node.id)
          IN /\ heap' = w.heap
             /\ tree' = w.tree
    /\ UNCHANGED <<pc, pages, max_chunk_size, overlap_pages, i, chunks, leaf_nodes,
                   current_level_nodes, current_level, pdf, root_paths>>
    /\ UNCHANGED <<store, nav, search_vars, process_vars>>

\* a caller loads a tree from a dictionary: the dictionary of the tree
\* assembled so far, of which only the entries at the positions `kept` are left
FromDict ==
    /\ pc = "assemble"
    /\ \E kept \in SUBSET (1..Len(tree.nodes)) :
          LET full == to_dict([heap |-> heap, tree |-> tree])
              data == [full EXCEPT !.nodes =
                          SelectSeq([k \in 1..Len(full.nodes) |->
                                        IF k \in kept THEN full.nodes[k]
                                        ELSE [node_id |-> None]],
                                    LAMBDA e : e.node_id # None)]
              w == from_dict(data)
          IN /\ heap' = w.heap
             /\ tree' = w.tree
    /\ pc' = "loaded"
    /\ UNCHANGED <<pages, max_chunk_size, overlap_pages, i, chunks, leaf_nodes,
                   current_level_nodes, current_level, pdf, root_paths>>
    /\ UNCHANGED <<store, nav, search_vars, process_vars>>

InitAssembly ==
    /\ pc = "assemble"
    /\ pdf = [total |-> 0, failed |-> 0]
    /\ pages = <<>>
    /\ max_chunk_size = DefaultMaxChunkSize
    /\ overlap_pages = 0
    /\ i = 0
    /\ chunks = <<>>
    /\ leaf_nodes = <<>>
    /\ heap = <<>>
    /\ tree = DocumentTree(DocId)
    /\ current_level_nodes = <<>>
    /\ current_level = None
    /\ root_paths = {}
    /\ store = EmptyStore
    /\ nav = NoCall
    /\ query_embedding = NoEmbedding
    /\ threshold = DefaultThreshold
    /\ top_k = DefaultTopK
    /\ results = <<>>
    /\ document_filter = NoDocumentId
    /\ built = <<>>
    /\ cursor = 0

NextAssembly == AddNode \/ FromDict

SpecAssembly == InitAssembly /\ [][NextAssembly]_vars

\* ========================================================== similarity search
\* the candidate trees of the search have up to MaxCandidates nodes
MaxCandidates == 3

\* the largest top_k asked for
MaxTopK == 2

\* a similarity is a quotient of two whole numbers with den > 0; the vectors
\* below have whole-number lengths, so every similarity the code computes in
\* floating point is the correctly rounded value of such a quotient and
\* compares like it
Ratio(num, den) == [num |-> num, den |-> den]

\* a >= b
RatioGE(a, b) == a.num * b.den >= b.num * a.den

\* the vectors the embedding service may have produced
VectorInputs == {<<0, 0>>, <<1, 0>>, <<3, 4>>, <<4, 3>>, <<-1, 0>>}

\* node.embedding: None or a vector
EmbeddingInputs == {NoEmbedding} \cup {Embedding(v) : v \in VectorInputs}

\* query_embedding: None, the empty list or a vector
QueryInputs == {NoEmbedding, Embedding(<<>>), Embedding(<<0, 0>>),
                Embedding(<<1, 0>>), Embedding(<<3, 4>>)}

\* threshold: 0.0, the default 0.7 and 1.0
ThresholdInputs == {Ratio(0, 1), DefaultThreshold, Ratio(1, 1)}

\* top_k: any integer the caller passes, -1 included
TopKInputs == -1..MaxTopK

\* "if embedding": None and the empty list are falsy
HasVector(e) == e.present /\ Len(e.vec) > 0

RECURSIVE dot(_, _)
\* np.dot of two vectors of the same length
dot(v1, v2) ==
    IF Len(v1) = 0 THEN 0
    ELSE Head(v1) * Head(v2) + dot(Tail(v1), Tail(v2))

\* np.linalg.norm of a vector whose length is a whole number
norm(v) == CHOOSE r \in 0..dot(v, v) : r * r = dot(v, v)

\* a similarity without the test for a zero norm: the quotient is taken as it
\* comes, with a zero divisor for a zero-magnitude vector
compute_similarity_NoZeroGuard(embedding1, embedding2) ==
    IF ~HasVector(embedding1) \/ ~HasVector(embedding2) THEN Ratio(0, 1)
    ELSE Ratio(dot(embedding1.vec, embedding2.vec),
               norm(embedding1.vec) * norm(embedding2.vec))

\* EmbeddingGenerator.compute_similarity
compute_similarity(embedding1, embedding2) ==
    IF ~HasVector(embedding1) \/ ~HasVector(embedding2) THEN Ratio(0, 1)
    ELSE LET dot_product == dot(embedding1.vec, embedding2.vec)
             norm1 == norm(embedding1.vec)
             norm2 == norm(embedding2.vec)
         IN IF norm1 = 0 \/ norm2 = 0 THEN Ratio(0, 1)
            ELSE Ratio(dot_product, norm1 * norm2)

RECURSIVE scan_nodes(_, _, _, _, _)
\* the loop "for node in tree.nodes.values()": the (node, similarity) pairs of
\* the nodes that have a vector and reach the threshold
scan_nodes(q, w, ids, thr, similarities) ==
    IF Len(ids) = 0 THEN similarities
    ELSE LET node == w.heap[Head(ids)]
             similarity == compute_similarity(q, node.embedding)
         IN scan_nodes(q, w, Tail(ids), thr,
                       IF HasVector(node.embedding) /\ RatioGE(similarity, thr)
                       THEN Append(similarities, <<node, similarity>>)
                       ELSE similarities)

\* a >= b and b >= a
RatioEQ(a, b) == a.num * b.den = b.num * a.den

\* one pair put in front of the pairs that are equally similar: a sort that
\* turns the order of equals around
insert_desc_BeforeEquals(sorted, x) ==
    LET pos == Cardinality({k \in 1..Len(sorted) :
                               RatioGE(sorted[k][2], x[2]) /\ ~RatioEQ(sorted[k][2], x[2])})
    IN SubSeq(sorted, 1, pos) \o <<x>> \o SubSeq(sorted, pos + 1, Len(sorted))

\* one pair put into a list sorted by falling similarity, behind every pair
\* that is at least as similar
insert_desc(sorted, x) ==
    LET pos == Cardinality({k \in 1..Len(sorted) : RatioGE(sorted[k][2], x[2])})
    IN SubSeq(sorted, 1, pos) \o <<x>> \o SubSeq(sorted, pos + 1, Len(sorted))

RECURSIVE sort_desc(_, _)
\* list.sort(key=lambda x: x[1], reverse=True): by falling similarity, equal
\* similarities staying in their order
sort_desc(list, sorted) ==
    IF Len(list) = 0 THEN sorted
    ELSE sort_desc(Tail(list), insert_desc(sorted, Head(list)))

\* list[:k]: the first k entries, or all but the last -k when k is negative
slice_to(list, k) ==
    IF k >= 0 THEN SubSeq(list, 1, Min(k, Len(list)))
    ELSE SubSeq(list, 1, Max(0, Len(list) + k))

\* EmbeddingGenerator.find_similar_nodes
find_similar_nodes(q, w, k, thr) ==
    IF ~HasVector(q) THEN <<>>
    ELSE slice_to(sort_desc(scan_nodes(q, w, w.tree.nodes, thr, <<>>), <<>>), k)

\* Neo4jConnector._compute_cosine_similarity: the same computation, on the
\* vectors read from the database
_compute_cosine_similarity(vec1, vec2) ==
    IF ~HasVector(vec1) \/ ~HasVector(vec2) THEN Ratio(0, 1)
    ELSE LET dot_product == dot(vec1.vec, vec2.vec)
             norm1 == norm(vec1.vec)
             norm2 == norm(vec2.vec)
         IN IF norm1 = 0 \/ norm2 = 0 THEN Ratio(0, 1)
            ELSE Ratio(dot_product, norm1 * norm2)

\* a candidate tree: up to MaxCandidates nodes, each with or without a vector;
\* a query vector, a threshold and a top_k
InitRank ==
    /\ pc = "rank"
    /\ \E n \in 0..MaxCandidates :
          \E embeddings \in [1..n -> EmbeddingInputs] :
              /\ heap = [id \in 1..n |->
                            [DocumentNode(id, <<>>, LEAF, DocId, LeafLevel, id, id,
                                          EmptyDict)
                                 EXCEPT !.embedding = embeddings[id]]]
              /\ tree = [document_id |-> DocId, nodes |-> [id \in 1..n |-> id],
                         root_node_id |-> IF n > 0 THEN 1 ELSE None]
    /\ query_embedding \in QueryInputs
    /\ threshold \in ThresholdInputs
    /\ top_k \in TopKInputs
    /\ results = <<>>
    /\ document_filter = NoDocumentId
    /\ built = <<>>
    /\ cursor = 0
    /\ pdf = [total |-> 0, failed |-> 0]
    /\ pages = <<>>
    /\ max_chunk_size = DefaultMaxChunkSize
    /\ overlap_pages = 0
    /\ i = 0
    /\ chunks = <<>>
    /\ leaf_nodes = <<>>
    /\ current_level_nodes = <<>>
    /\ current_level = None
    /\ root_paths = {}
    /\ store = EmptyStore
    /\ nav = NoCall

\* the call find_similar_nodes(query_embedding, tree, top_k, threshold)
FindSimilarNodes ==
    /\ pc = "rank"
    /\ results' = find_similar_nodes(query_embedding, [heap |-> heap, tree |-> tree],
                                     top_k, threshold)
    /\ pc' = "ranked"
    /\ UNCHANGED <<pages, max_chunk_size, overlap_pages, i, chunks, leaf_nodes, heap,
                   tree, current_level_nodes, current_level, pdf, root_paths, store,
                   nav, query_embedding, threshold, top_k, document_filter>>
    /\ UNCHANGED process_vars

NextRank == FindSimilarNodes

SpecRank == InitRank /\ [][NextRank]_vars

\* ============================================================ database search
\* the number of nodes in the database, and the largest top_k of a search
MaxStored == 5
MaxSearchTopK == 1

\* the embedding property of a stored node: null, or a vector
StoredEmbeddingInputs == {NoEmbedding, Embedding(<<1, 0>>), Embedding(<<3, 4>>)}

\* what generate_embedding(query) returned: None, or the vector of the query
SearchQueryInputs == {NoEmbedding, Embedding(<<1, 0>>)}

\* the document_id argument: None, the empty string, a stored document, an
\* unknown document
FilterInputs == {NoDocumentId, DocumentId("")}
                    \cup {DocumentId(d) : d \in DocumentIdInputs}

\* MATCH (n:DocumentNode) WHERE n.embedding IS NOT NULL
\* [AND n.document_id = $document_id]: the ids of the nodes that match
Matching(s, doc) ==
    {id \in DOMAIN s.nodes :
        /\ s.nodes[id].embedding.present
        /\ (doc.present /\ doc.id # "" => s.nodes[id].document_id = doc.id)}

\* RETURN ... LIMIT $limit, with no ORDER BY: the database returns any `limit`
\* of the matching nodes (all of them if there are fewer), in any order
Rows(s, doc, limit) ==
    LET matching == Matching(s, doc)
        count == Min(limit, Cardinality(matching))
    IN {rows \in [1..count -> matching] :
           \A j, k \in 1..count : j # k => rows[j] # rows[k]}

RECURSIVE with_similarity(_, _, _, _)
\* the loop "for record in result": the stored nodes with a non-empty
\* embedding, each with its similarity to the query
with_similarity(s, q, rows, nodes_with_similarity) ==
    IF Len(rows) = 0 THEN nodes_with_similarity
    ELSE LET node == s.nodes[Head(rows)]
         IN with_similarity(s, q, Tail(rows),
                IF HasVector(node.embedding)
                THEN Append(nodes_with_similarity,
                            <<node, _compute_cosine_similarity(q, node.embedding)>>)
                ELSE nodes_with_similarity)

\* Neo4jConnector.search_nodes_by_similarity, on the rows the query returned
\* for LIMIT top_k * 2
search_nodes_by_similarity(s, q, rows, k) ==
    slice_to(sort_desc(with_similarity(s, q, rows, <<>>), <<>>), k)

\* the LIMIT that search_nodes_by_similarity(query_embedding, document_id, k)
\* hands to the database
LimitOf(k) == k * 2

\* SemanticSearchEngine.search from the query's embedding q on; rows is what
\* the database returned to search_nodes_by_similarity(q, document_id, top_k * 2)
search(s, q, rows, k, thr) ==
    IF ~HasVector(q) THEN <<>>
    ELSE LET found == search_nodes_by_similarity(s, q, rows, k * 2)
             filtered_results == SelectSeq(found, LAMBDA r : RatioGE(r[2], thr))
         IN slice_to(filtered_results, k)

\* the call search(query, document_id, top_k, threshold)
Search ==
    /\ pc = "search"
    /\ \E rows \in Rows(store, document_filter, LimitOf(top_k * 2)) :
          results' = search(store, query_embedding, rows, top_k, threshold)
    /\ pc' = "found"
    /\ UNCHANGED <<pages, max_chunk_size, overlap_pages, i, chunks, leaf_nodes, heap,
                   tree, current_level_nodes, current_level, pdf, root_paths, store,
                   nav, query_embedding, threshold, top_k, document_filter>>
    /\ UNCHANGED process_vars

\* a database of up to MaxStored nodes, with and without a vector, of two
\* documents in turn; top_k is not negative (the database rejects a negative
\* LIMIT)
InitSearch ==
    /\ pc = "search"
    /\ \E n \in 0..MaxStored :
          \E embeddings \in [1..n -> StoredEmbeddingInputs] :
              store = [documents |-> {[id |-> DocId, root_node_id |-> None],
                                      [id |-> "doc-2", root_node_id |-> None]},
                       nodes |-> [id \in 1..n |->
                                    stored_node(
                                      [DocumentNode(id, <<id>>, LEAF,
                                           IF id % 2 = 1 THEN DocId ELSE "doc-2",
                                           LeafLevel, id, id, EmptyDict)
                                       EXCEPT !.embedding = embeddings[id]])],
                       contains |-> {<<IF id % 2 = 1 THEN DocId ELSE "doc-2", id>> :
                                        id \in 1..n}]
    /\ query_embedding \in SearchQueryInputs
    /\ threshold \in ThresholdInputs
    /\ top_k \in 0..MaxSearchTopK
    /\ document_filter \in FilterInputs
    /\ results = <<>>
    /\ heap = <<>>
    /\ tree = NoTree
    /\ pdf = [total |-> 0, failed |-> 0]
    /\ pages = <<>>
    /\ max_chunk_size = DefaultMaxChunkSize
    /\ overlap_pages = 0
    /\ i = 0
    /\ chunks = <<>>
    /\ leaf_nodes = <<>>
    /\ current_level_nodes = <<>>
    /\ current_level = None
    /\ root_paths = {}
    /\ nav = NoCall
    /\ built = <<>>
    /\ cursor = 0

NextSearch == Search

SpecSearch == InitSearch /\ [][NextSearch]_vars

\* ================================================= summaries and embeddings
\* the largest document that is summarised and embedded
MaxProcessPages == 3

\* what a call of the provider's API does: it answers or it raises
ProviderOutcomes == {"response", "error"}

\* a call that returned value v, and a call that raised
Return(v) == [raised |-> FALSE, value |-> v]
Raised == [raised |-> TRUE, value |-> <<>>]

\* "not text.strip()": nothing but white space
strip_is_empty(text) == \A k \in 1..Len(text) : text[k] = NL

\* f"Summary unavailable: {str(e)}", the provider's summary of a content, and
\* "No content available", as one-token texts
SummaryUnavailable == <<-2>>
ProviderSummary == <<-3>>
NoContentAvailable == <<-4>>

\* the provider's synthesis of n child summaries: a text that tells how many
\* summaries the prompt held
ProviderSynthesis(n) == <<-3, n>>

\* the vector the provider returns for a text
ProviderVector == <<3, 4>>

\* summarize_content whose except clause is missing: the provider's exception
\* leaves the function
summarize_content_Raises(content, outcome) ==
    IF strip_is_empty(content) THEN Return(<<>>)
    ELSE IF outcome = "error" THEN Raised
    ELSE Return(ProviderSummary)

\* Summarizer.summarize_content (the context only goes into the prompt)
summarize_content(content, outcome) ==
    IF strip_is_empty(content) THEN Return(<<>>)
    ELSE IF outcome = "error" THEN Return(SummaryUnavailable)
    ELSE Return(ProviderSummary)

\* Summarizer.summarize_child_summaries
summarize_child_summaries(child_summaries, outcome) ==
    IF Len(child_summaries) = 0 THEN Return(<<>>)
    ELSE IF outcome = "error" THEN Return(SummaryUnavailable)
    ELSE Return(ProviderSynthesis(Len(child_summaries)))

\* [child.summary for child in children if child.summary]
summaries_of(children) ==
    LET with_summary == SelectSeq(children, LAMBDA child : Len(child.summary) > 0)
    IN [k \in 1..Len(with_summary) |-> with_summary[k].summary]

\* Summarizer.generate_summary_for_node: the heap with node.summary set, unless
\* the call raised
generate_summary_for_node(w, node, outcome) ==
    LET r == IF is_leaf(w.heap[node])
             THEN summarize_content(w.heap[node].content, outcome)
             ELSE LET children == get_children(w, w.heap[node].id)
                  IN IF Len(children) > 0
                     THEN summarize_child_summaries(summaries_of(children), outcome)
                     ELSE Return(NoContentAvailable)
    IN [raised |-> r.raised,
        heap |-> IF r.raised THEN w.heap
                 ELSE [w.heap EXCEPT ![node].summary = r.value]]

\* max_level of generate_summaries_for_tree
max_level_of(w) == MaxOf({0} \cup {w.heap[n].level : n \in Range(w.tree.nodes)})

RECURSIVE nodes_by_level(_, _)
\* generate_summaries_for_tree: the nodes of nodes_by_level[level], then those
\* of the levels below it down to level 0: the order in which the loop
\* "for level in range(max_level, -1, -1)" visits the nodes
nodes_by_level(w, level) ==
    IF level < 0 THEN <<>>
    ELSE SelectSeq(w.tree.nodes, LAMBDA n : w.heap[n].level = level)
             \o nodes_by_level(w, level - 1)

\* the visiting order of generate_summaries_for_tree ("if not tree.nodes:
\* return" visits nothing)
summary_order(w) ==
    IF Len(w.tree.nodes) = 0 THEN <<>> ELSE nodes_by_level(w, max_level_of(w))

\* a leaf list that is every node of the tree
get_leaf_nodes_All(w) == w.tree.nodes

\* DocumentTree.get_leaf_nodes
get_leaf_nodes(w) == SelectSeq(w.tree.nodes, LAMBDA n : is_leaf(w.heap[n]))

\* EmbeddingGenerator.generate_embedding: None for a blank text and when the
\* provider raises
generate_embedding(text, outcome) ==
    IF strip_is_empty(text) THEN NoEmbedding
    ELSE IF outcome = "error" THEN NoEmbedding
    ELSE Embedding(ProviderVector)

\* EmbeddingGenerator.generate_embedding_for_node
generate_embedding_for_node(h, node, outcome) ==
    LET text_to_embed == IF Len(h[node].summary) > 0 THEN h[node].summary
                         ELSE h[node].content
    IN IF Len(text_to_embed) > 0
       THEN [h EXCEPT ![node].embedding = generate_embedding(text_to_embed, outcome)]
       ELSE h

\* EmbeddingGenerator.search_by_text, from the embedding of the query text on
search_by_text(q, w, k, thr) ==
    IF ~HasVector(q) THEN <<>> ELSE find_similar_nodes(q, w, k, thr)

\* process_document, step 2 begins: generate_summaries_for_tree(tree)
SummarizeStart ==
    /\ pc = "done"
    /\ pc' = "summarize"
    /\ cursor' = 0
    /\ UNCHANGED <<pages, max_chunk_size, overlap_pages, i, chunks, leaf_nodes, heap,
                   tree, current_level_nodes, current_level, pdf, root_paths>>
    /\ UNCHANGED <<store, nav, search_vars, built>>

\* one call generate_summary_for_node(node, tree) of the loop; an exception
\* that leaves it ends process_document
SummarizeNode ==
    /\ pc = "summarize"
    /\ LET w == [heap |-> heap, tree |-> tree]
           order == summary_order(w)
       IN /\ cursor < Len(order)
          /\ \E outcome \in ProviderOutcomes :
                LET r == generate_summary_for_node(w, order[cursor + 1], outcome)
                IN /\ heap' = r.heap
                   /\ pc' = IF r.raised THEN "aborted" ELSE pc
    /\ cursor' = cursor + 1
    /\ UNCHANGED <<pages, max_chunk_size, overlap_pages, i, chunks, leaf_nodes,
                   tree, current_level_nodes, current_level, pdf, root_paths>>
    /\ UNCHANGED <<store, nav, search_vars, built>>

\* generate_summaries_for_tree returns; step 3 begins:
\* generate_embeddings_for_tree(tree)
SummarizeReturn ==
    /\ pc = "summarize"
    /\ cursor = Len(summary_order([heap |-> heap, tree |-> tree]))
    /\ pc' = "embed"
    /\ cursor' = 0
    /\ UNCHANGED <<pages, max_chunk_size, overlap_pages, i, chunks, leaf_nodes, heap,
                   tree, current_level_nodes, current_level, pdf, root_paths>>
    /\ UNCHANGED <<store, nav, search_vars, built>>

\* one call generate_embedding_for_node(node) of the loop over get_leaf_nodes()
EmbedNode ==
    /\ pc = "embed"
    /\ LET leaves == get_leaf_nodes([heap |-> heap, tree |-> tree])
       IN /\ cursor < Len(leaves)
          /\ \E outcome \in ProviderOutcomes :
                heap' = generate_embedding_for_node(heap, leaves[cursor + 1], outcome)
    /\ cursor' = cursor + 1
    /\ UNCHANGED <<pc, pages, max_chunk_size, overlap_pages, i, chunks, leaf_nodes,
                   tree, current_level_nodes, current_level, pdf, root_paths>>
    /\ UNCHANGED <<store, nav, search_vars, built>>

\* generate_embeddings_for_tree returns
EmbedReturn ==
    /\ pc = "embed"
    /\ cursor = Len(get_leaf_nodes([heap |-> heap, tree |-> tree]))
    /\ pc' = "store"
    /\ cursor' = 0
    /\ UNCHANGED <<pages, max_chunk_size, overlap_pages, i, chunks, leaf_nodes, heap,
                   tree, current_level_nodes, current_level, pdf, root_paths>>
    /\ UNCHANGED <<store, nav, search_vars, built>>

\* process_document, step 4: store_document_tree(tree), and the return
StoreTree ==
    /\ pc = "store"
    /\ store' = store_document_tree(store, heap, tree)
    /\ pc' = "processed"
    /\ UNCHANGED <<pages, max_chunk_size, overlap_pages, i, chunks, leaf_nodes, heap,
                   tree, current_level_nodes, current_level, pdf, root_paths, nav>>
    /\ UNCHANGED <<search_vars, process_vars>>

\* a caller ranks the processed tree: find_similar_nodes(query_embedding, tree,
\* top_k, threshold)
FindSimilarInTree ==
    /\ pc = "processed"
    /\ \E q \in QueryInputs, thr \in ThresholdInputs, k \in TopKInputs :
          /\ query_embedding' = q
          /\ threshold' = thr
          /\ top_k' = k
          /\ results' = find_similar_nodes(q, [heap |-> heap, tree |-> tree], k, thr)
    /\ pc' = "searched"
    /\ UNCHANGED <<pages, max_chunk_size, overlap_pages, i, chunks, leaf_nodes, heap,
                   tree, current_level_nodes, current_level, pdf, root_paths, store,
                   nav, document_filter>>
    /\ UNCHANGED process_vars

\* SemanticSearchEngine.search_in_tree(query, tree, top_k, threshold): q is
\* what generate_embedding(query) returned; the (node, similarity) pairs of
\* the formatted results
SearchInTree ==
    /\ pc = "processed"
    /\ \E q \in QueryInputs, thr \in ThresholdInputs, k \in TopKInputs :
          /\ query_embedding' = q
          /\ threshold' = thr
          /\ top_k' = k
          /\ results' = search_by_text(q, [heap |-> heap, tree |-> tree], k, thr)
    /\ pc' = "searched"
    /\ UNCHANGED <<pages, max_chunk_size, overlap_pages, i, chunks, leaf_nodes, heap,
                   tree, current_level_nodes, current_level, pdf, root_paths, store,
                   nav, document_filter>>
    /\ UNCHANGED process_vars

\* documents of up to MaxProcessPages pages, every page of which is extracted
InitProcess == Init /\ pdf.total <= MaxProcessPages /\ pdf.failed = 0

NextProcess ==
    \/ SplitStep
    \/ SplitReturn
    \/ CreateLeafNodes
    \/ BuildStart
    \/ GroupRound
    \/ FinishRoot
    \/ SummarizeStart
    \/ SummarizeNode
    \/ SummarizeReturn
    \/ EmbedNode
    \/ EmbedReturn
    \/ StoreTree
    \/ FindSimilarInTree
    \/ SearchInTree

SpecProcess == InitProcess /\ [][NextProcess]_vars

\* ========================================================= building twice
\* create_leaf_nodes and build_tree_structure are called once more with the
\* same chunks and the same splitter: the first tree and its nodes stay alive,
\* so the identifiers drawn for the second tree are new ones.
BuildAgain ==
    /\ pc = "done"
    /\ built = <<>>
    /\ built' = <<tree>>
    /\ pc' = "leaves"
    /\ leaf_nodes' = <<>>
    /\ tree' = NoTree
    /\ current_level_nodes' = <<>>
    /\ current_level' = None
    /\ UNCHANGED <<pages, max_chunk_size, overlap_pages, i, chunks, heap, pdf,
                   root_paths>>
    /\ UNCHANGED <<store, nav, search_vars, cursor>>

NextTwice ==
    \/ SplitStep
    \/ SplitReturn
    \/ CreateLeafNodes
    \/ BuildStart
    \/ GroupRound
    \/ FinishRoot
    \/ BuildAgain

SpecTwice == Init /\ [][NextTwice]_vars

\* ======================================================== linking nodes by hand
\* the number of nodes a caller links with add_child, and the number of calls
MaxLinked == 3
MaxCalls == 4

\* the call p.add_child(c) on two of the nodes (the same node twice included)
AddChild ==
    /\ pc = "link"
    /\ cursor < MaxCalls
    /\ \E p, c \in DOMAIN heap : heap' = add_child(heap, p, c)
    /\ cursor' = cursor + 1
    /\ UNCHANGED <<pc, pages, max_chunk_size, overlap_pages, i, chunks, leaf_nodes,
                   tree, current_level_nodes, current_level, pdf, root_paths>>
    /\ UNCHANGED <<store, nav, search_vars, built>>

\* MaxLinked nodes fresh from the constructor, in no tree
InitLink ==
    /\ pc = "link"
    /\ heap = [id \in 1..MaxLinked |->
                  DocumentNode(id, <<>>, LEAF, DocId, 0, None, None, EmptyDict)]
    /\ tree = NoTree
    /\ pdf = [total |-> 0, failed |-> 0]
    /\ pages = <<>>
    /\ max_chunk_size = DefaultMaxChunkSize
    /\ overlap_pages = 0
    /\ i = 0
    /\ chunks = <<>>
    /\ leaf_nodes = <<>>
    /\ current_level_nodes = <<>>
    /\ current_level = None
    /\ root_paths = {}
    /\ store = EmptyStore
    /\ nav = NoCall
    /\ query_embedding = NoEmbedding
    /\ threshold = DefaultThreshold
    /\ top_k = DefaultTopK
    /\ results = <<>>
    /\ document_filter = NoDocumentId
    /\ built = <<>>
    /\ cursor = 0

NextLink == AddChild

SpecLink == InitLink /\ [][NextLink]_vars

\* ===================================================================== claims
\* build_tree_structure has returned a tree built from a non-empty leaf list
Built == pc = "done" /\ Len(leaf_nodes) > 0

\* the keys of tree.nodes
TreeIds == Range(tree.nodes)

\* how many times x occurs in the list s
Count(s, x) == Cardinality({k \in 1..Len(s) : s[k] = x})

\* the nodes of the tree without a parent_id
Parentless == {n \in TreeIds : heap[n].parent_id = None}

RECURSIVE ReachesRoot(_, _)
\* following parent_id from n arrives at the root without meeting a node of
\* `seen` (the nodes already passed) and without leaving the tree
ReachesRoot(n, seen) ==
    IF n = tree.root_node_id THEN TRUE
    ELSE LET p == heap[n].parent_id
         IN /\ p \in TreeIds
            /\ p \notin seen \cup {n}
            /\ ReachesRoot(p, seen \cup {n})

RECURSIVE LeavesInOrder(_)
RECURSIVE LeavesOfList(_)
\* the childless nodes met by a left-to-right depth-first walk from n
LeavesInOrder(n) ==
    IF Len(heap[n].children_ids) = 0 THEN <<n>>
    ELSE LeavesOfList(heap[n].children_ids)

LeavesOfList(s) ==
    IF Len(s) = 0 THEN <<>>
    ELSE LeavesInOrder(Head(s)) \o LeavesOfList(Tail(s))

\* a tree of three generations: some node's parent has a parent
ThreeGenerations ==
    \E n \in TreeIds : /\ heap[n].parent_id \in TreeIds
                        /\ heap[heap[n].parent_id].parent_id \in TreeIds

\* C1: in every tree returned for a non-empty leaf list, every node other than
\* the root has a parent_id naming a node of tree.nodes, and that parent's
\* children_ids holds the node's id exactly once.
C1_ParentLinks ==
    Built => \A n \in TreeIds \ {tree.root_node_id} :
                /\ heap[n].parent_id \in TreeIds
                /\ Count(heap[heap[n].parent_id].children_ids, n) = 1

C1_Witness == Built /\ ThreeGenerations /\ Len(leaf_nodes) >= 6

\* C2: in every tree returned for a non-empty leaf list, exactly one node has
\* no parent_id, root_node_id names it, every node carries the tree's
\* document_id, and the parent chain of every node ends at the root without
\* visiting a node twice.
C2_SingleRoot ==
    Built => /\ Parentless = {tree.root_node_id}
             /\ tree.root_node_id \in TreeIds
             /\ \A n \in TreeIds : heap[n].document_id = tree.document_id
             /\ \A n \in TreeIds : ReachesRoot(n, {})

C2_Witness == Built /\ ThreeGenerations /\ Len(tree.nodes) >= 10

\* C3: in every returned tree level is the depth from the root: the root has
\* level 0 and every listed child has its parent's level + 1.
C3_LevelIsDepth ==
    Built => /\ heap[tree.root_node_id].level = 0
             /\ \A p \in TreeIds : \A c \in Range(heap[p].children_ids) :
                   heap[c].level = heap[p].level + 1

\* C4: the childless nodes of the built tree are one per chunk, each with its
\* chunk's text, page_start and page_end, and the depth-first walk from the
\* root meets them in the order of the chunks; no chunks, no nodes.
C4_LeavesAreChunks ==
    pc = "done" =>
        IF Len(chunks) = 0 THEN tree.nodes = <<>>
        ELSE LET walk == LeavesInOrder(tree.root_node_id)
             IN /\ Len(walk) = Len(chunks)
                /\ Range(walk) = {n \in TreeIds : Len(heap[n].children_ids) = 0}
                /\ Cardinality(Range(walk)) = Len(chunks)
                /\ \A k \in 1..Len(chunks) :
                      /\ heap[walk[k]].content = chunks[k].text
                      /\ heap[walk[k]].page_start = chunks[k].page_start
                      /\ heap[walk[k]].page_end = chunks[k].page_end

C4_Witness ==
    /\ Built /\ ThreeGenerations /\ Len(chunks) >= 7
    /\ \E k \in 1..Len(chunks) : chunks[k].page_start < chunks[k].page_end

\* a grouping round: one iteration of the loop of build_tree_structure
IsGroupRound == pc = "group" /\ pc' = "group"

\* C5: build_tree_structure terminates on every non-empty leaf list: every
\* grouping round runs on n > 1 nodes and leaves fewer than n and at least
\* one, so the length of current_level_nodes is a variant of the loop; the
\* loop is left with exactly one top-level node, and the call returns it as
\* the root with level 0.
C5_Terminates ==
    /\ [][IsGroupRound =>
            /\ Len(current_level_nodes) > 1
            /\ Len(current_level_nodes') < Len(current_level_nodes)
            /\ Len(current_level_nodes') >= 1]_vars
    /\ [][pc = "group" /\ pc' # "group" =>
            /\ Len(current_level_nodes) = 1
            /\ pc' = "done"
            /\ tree'.root_node_id = current_level_nodes[1]
            /\ heap'[current_level_nodes[1]].level = 0]_vars
    /\ [](pc = "group" => current_level <= Len(leaf_nodes))

C5_Witness ==
    Built /\ current_level >= 4 /\ Len(leaf_nodes) = MaxPages

\* the group size the grouping policy prescribes for n nodes: n // 3 clamped
\* to 2..5
Clamp3(n) ==
    IF n \div 3 < 2 THEN 2 ELSE IF n \div 3 > 5 THEN 5 ELSE n \div 3

\* the number of runs of length g that cover n nodes
Runs(n, g) == (n + g - 1) \div g

\* C6: a grouping round on n > 1 nodes creates one parent per contiguous run
\* of min(5, max(2, n // 3)) nodes (the last run shorter, not empty); a
\* parent's children_ids is its run in input order and every input node gets
\* the parent of its run.
C6_Grouping ==
    [][IsGroupRound =>
        LET n == Len(current_level_nodes)
            g == Clamp3(n)
            parents == current_level_nodes'
        IN /\ Len(parents) = Runs(n, g)
           /\ Cardinality(Range(parents)) = Len(parents)
           /\ Range(parents) \cap Range(current_level_nodes) = {}
           /\ \A r \in 1..Len(parents) :
                 LET first == (r - 1) * g + 1
                     last == IF r * g < n THEN r * g ELSE n
                 IN /\ first <= last
                    /\ heap'[parents[r]].children_ids =
                          [j \in 1..(last - first + 1) |->
                              current_level_nodes[first + j - 1]]
                    /\ \A j \in first..last :
                          heap'[current_level_nodes[j]].parent_id = parents[r]]_vars

\* a round with the clamp at 5 active and a shorter last run has happened
C6_Witness ==
    /\ pc = "group"
    /\ Len(current_level_nodes) > 1
    /\ \E a \in Range(current_level_nodes) : Len(heap[a].children_ids) = 5
    /\ \E b \in Range(current_level_nodes) : Len(heap[b].children_ids) \in 1..4

\* C7 (as claimed): both root branches occur: once trees have been built for
\* every leaf count up to MaxPages, some root was the sole node left by the
\* grouping and some root was a newly created is_synthetic_root node.
C7_BothRootPaths ==
    (/\ pc = "done"
     /\ pdf = [total |-> MaxPages, failed |-> 0]
     /\ max_chunk_size = 1
     /\ overlap_pages = 0) => root_paths = {"natural", "synthetic"}

\* C7 (amended): only the first branch occurs: the grouping loop always ends
\* with exactly one top-level node, that node becomes the root, and no node
\* of a returned tree is marked is_synthetic_root.
C7_RootIsNeverSynthetic ==
    /\ "synthetic" \notin root_paths
    /\ Built => /\ root_paths = {"natural"}
                /\ current_level_nodes = <<tree.root_node_id>>
                /\ \A n \in TreeIds :
                      "is_synthetic_root" \notin DOMAIN heap[n].metadata

\* the session has built a tree for every page count and the last tree's
\* root came out of at least two grouping rounds
C7_Witness ==
    /\ Built /\ ThreeGenerations
    /\ pdf = [total |-> MaxPages, failed |-> 0]
    /\ max_chunk_size = 1
    /\ overlap_pages = 0
    /\ Len(heap[tree.root_node_id].children_ids) > 1

\* C8: in every returned tree a node's node_type is leaf exactly when its
\* children_ids is empty.
C8_LeafIffChildless ==
    Built => \A n \in TreeIds :
                (heap[n].node_type = LEAF) <=> (Len(heap[n].children_ids) = 0)

\* split_pages_into_chunks has returned
Returned == pc # "split"

RECURSIVE Flatten(_)
\* the texts of a list of pages, one after the other
Flatten(ps) ==
    IF Len(ps) = 0 THEN <<>> ELSE Head(ps).text \o Flatten(Tail(ps))

\* the characters of a text that are not line breaks
Strip(text) == SelectSeq(text, LAMBDA ch : ch # NL)

\* chunk c is made of the input pages at positions a..b (1-based), in order
IsRun(c, a, b) ==
    /\ 1 <= a /\ a <= b /\ b <= Len(pages)
    /\ c.page_start = pages[a].page_number
    /\ c.page_end = pages[b].page_number
    /\ c.page_count = b - a + 1
    /\ Strip(c.text) = Flatten(SubSeq(pages, a, b))

\* the positions of the pages numbered as the chunk's first and last page
StartsOf(c) == {a \in 1..Len(pages) : pages[a].page_number = c.page_start}
EndsOf(c) == {b \in 1..Len(pages) : pages[b].page_number = c.page_end}

\* C9: for a non-empty page sequence the returned chunks are contiguous runs
\* of input pages in their order, every input page lies in some chunk, and
\* the chunks' start positions strictly increase.
C9_ChunksCoverPages ==
    (Returned /\ Len(pages) > 0) =>
        /\ \A k \in 1..Len(chunks) :
              \E a \in StartsOf(chunks[k]), b \in EndsOf(chunks[k]) :
                  IsRun(chunks[k], a, b)
        /\ \A j \in 1..Len(pages) :
              \E k \in 1..Len(chunks) :
                  \E a \in StartsOf(chunks[k]), b \in EndsOf(chunks[k]) :
                      a <= j /\ j <= b
        /\ \A k \in 1..(Len(chunks) - 1) :
              \A a \in StartsOf(chunks[k]), a2 \in StartsOf(chunks[k + 1]) : a < a2

C9_Witness ==
    /\ Returned /\ Len(chunks) >= 3
    /\ overlap_pages > 0 /\ max_chunk_size > overlap_pages
    /\ pdf.failed \in 2..(pdf.total - 1)

RECURSIVE RefScan(_, _, _, _)
\* the reference scan from index k: the [start, end) index pairs of the chunks
RefScan(k, size, overlap, total) ==
    IF k >= total THEN <<>>
    ELSE LET e == IF k + size < total THEN k + size ELSE total
             back == e - overlap
             nxt == IF overlap > 0 THEN (IF back > k + 1 THEN back ELSE k + 1) ELSE e
         IN <<[s |-> k, e |-> e]>> \o RefScan(nxt, size, overlap, total)

\* C10: the returned chunks are those of the reference scan, so each has
\* between 1 and max_chunk_size pages; with no overlap every page lies in
\* exactly one chunk; 23 pages in chunks of 10 give 1-10, 11-20, 21-23.
C10_ReferenceScan ==
    Returned =>
        LET ref == RefScan(0, max_chunk_size, overlap_pages, Len(pages))
        IN /\ Len(chunks) = Len(ref)
           /\ \A k \in 1..Len(chunks) :
                 /\ IsRun(chunks[k], ref[k].s + 1, ref[k].e)
                 /\ chunks[k].page_count \in 1..max_chunk_size
           /\ overlap_pages = 0 =>
                 \A j \in 1..Len(pages) :
                     Cardinality({k \in 1..Len(chunks) :
                         \E a \in StartsOf(chunks[k]), b \in EndsOf(chunks[k]) :
                             a <= j /\ j <= b}) = 1
           /\ (pdf = [total |-> 23, failed |-> 0] /\ max_chunk_size = 10
                   /\ overlap_pages = 0) =>
                 [k \in 1..Len(chunks) |-> <<chunks[k].page_start, chunks[k].page_end>>]
                     = << <<1, 10>>, <<11, 20>>, <<21, 23>> >>

C10_Witness ==
    /\ Returned /\ Len(chunks) = 3
    /\ pdf = [total |-> 23, failed |-> 0]
    /\ max_chunk_size = 10 /\ overlap_pages = 0

\* ---------------------------------------------------------------------- C11
IsSplitStep == pc = "split" /\ pc' = "split"

\* C11: split_pages_into_chunks terminates for every page sequence, chunk size
\* > 0 and overlap >= 0, overlap >= chunk size included: every iteration of the
\* loop moves the scan index strictly forward and never past the page count,
\* and adds one chunk, so there are at most as many iterations as pages; once
\* the index has reached the page count the loop is left.
C11_SplitTerminates ==
    /\ [][IsSplitStep => /\ i' > i
                         /\ i' <= Len(pages)
                         /\ Len(chunks') = Len(chunks) + 1]_vars
    /\ [](pc = "split" => /\ 0 <= i /\ i <= Len(pages)
                          /\ Len(chunks) <= i)
    /\ [][pc = "split" /\ ~(i < Len(pages)) => pc' = "leaves"]_vars

\* a split that has returned several chunks with the overlap at least as wide
\* as the chunk size
C11_Witness ==
    /\ Returned
    /\ overlap_pages >= max_chunk_size
    /\ Len(chunks) >= 3
    /\ i = Len(pages)

\* ---------------------------------------------------------------------- C12
\* C12: empty input gives an empty result and no error: with no pages the
\* split returns at once with no chunks, and build_tree_structure of an empty
\* leaf list returns at once (never entering the grouping or the root code) a
\* tree of the document with no nodes and an absent root_node_id.
C12_EmptyInEmptyOut ==
    /\ [][pc = "split" /\ pages = <<>> => pc' = "leaves" /\ chunks' = <<>>]_vars
    /\ [][pc = "build" /\ leaf_nodes = <<>>
             => /\ pc' = "done"
                /\ tree' = [document_id |-> DocId, nodes |-> <<>>,
                            root_node_id |-> None]
                /\ heap' = <<>>]_vars
    /\ [](pc = "done" /\ pages = <<>>
             => /\ chunks = <<>> /\ leaf_nodes = <<>>
                /\ tree.nodes = <<>> /\ tree.root_node_id = None)

\* a finished run on a document with no extractable page
C12_Witness ==
    /\ pc = "done"
    /\ pages = <<>>
    /\ tree = DocumentTree(DocId)

\* ---------------------------------------------------------------------- C13
\* the tree of a non-empty leaf list has been written to the node store
Stored == pc = "stored" /\ Len(leaf_nodes) > 0

\* the leaves in document order: the childless nodes in the order of a
\* left-to-right depth-first walk from the root
DocumentOrder == LeavesInOrder(tree.root_node_id)

RECURSIVE leaf_walk(_, _, _)
\* the ids met by applying find_next_leaf_node again and again from node_id,
\* until it returns absent or n nodes have been met
leaf_walk(s, node_id, n) ==
    IF node_id = None \/ n = 0 THEN <<>>
    ELSE <<node_id>> \o leaf_walk(s, find_next_leaf_node(s, node_id).id, n - 1)

\* C13: on a built tree held by the store, the walk that starts at the first
\* leaf in document order and applies find_next_leaf_node repeatedly meets
\* exactly the leaves, each once, in document order; every answer is the stored
\* leaf itself, and the answer is absent after the last leaf and only there.
C13_NextLeafWalk ==
    Stored =>
        /\ Range(DocumentOrder) = {n \in DOMAIN store.nodes : is_leaf(store.nodes[n])}
        /\ \A n \in Range(DocumentOrder) : Count(DocumentOrder, n) = 1
        /\ leaf_walk(store, DocumentOrder[1], Len(store.nodes) + 1) = DocumentOrder
        /\ \A k \in 1..Len(DocumentOrder) :
              find_next_leaf_node(store, DocumentOrder[k]) =
                  IF k < Len(DocumentOrder) THEN store.nodes[DocumentOrder[k + 1]]
                  ELSE NoNode

\* a stored tree of three generations whose next-leaf walk crosses from one
\* parent's last leaf to the next parent's first leaf
C13_Witness ==
    /\ Stored
    /\ ThreeGenerations
    /\ \E k \in 1..(Len(DocumentOrder) - 1) :
          /\ heap[DocumentOrder[k]].parent_id # heap[DocumentOrder[k + 1]].parent_id
          /\ find_next_leaf_node(store, DocumentOrder[k]).id = DocumentOrder[k + 1]

\* ---------------------------------------------------------------------- C14
\* the ids met by applying find_previous_leaf_node again and again from node_id
RECURSIVE leaf_walk_back(_, _, _)
leaf_walk_back(s, node_id, n) ==
    IF node_id = None \/ n = 0 THEN <<>>
    ELSE <<node_id>> \o leaf_walk_back(s, find_previous_leaf_node(s, node_id).id, n - 1)

\* C14: find_previous_leaf_node mirrors find_next_leaf_node: for leaves a and b
\* of a stored built tree, the next leaf of a is b exactly when the previous
\* leaf of b is a, and the walk back from the last leaf meets every leaf once,
\* in reverse document order.
C14_PreviousMirrorsNext ==
    Stored =>
        /\ \A a, b \in Range(DocumentOrder) :
              (find_next_leaf_node(store, a).id = b)
                  <=> (find_previous_leaf_node(store, b).id = a)
        /\ leaf_walk_back(store, DocumentOrder[Len(DocumentOrder)],
                          Len(store.nodes) + 1) = Reverse(DocumentOrder)

\* ---------------------------------------------------------------------- C15
\* the in-memory tree as the DocumentTree methods see it
World == [heap |-> heap, tree |-> tree]

\* the ids of a list of nodes
IdsOf(nodes) == {nodes[k].id : k \in 1..Len(nodes)}

\* C15: for every node n of a built tree that has a parent p, the parent
\* operation on n returns p and the children operation on p returns a list that
\* contains n, for TreeNavigator over the store and for DocumentTree.get_parent
\* and get_children alike.
C15_ParentAndChildrenAgree ==
    Stored =>
        \A n \in TreeIds :
            heap[n].parent_id # None =>
                LET p == heap[n].parent_id
                IN /\ navigate_to_parent(store, n) = store.nodes[p]
                   /\ navigate_to_parent(store, n).id = p
                   /\ n \in IdsOf(navigate_to_children(store, p))
                   /\ get_parent(World, n) = heap[p]
                   /\ \E k \in 1..Len(get_children(World, p)) :
                         get_children(World, p)[k] = heap[n]

\* a stored tree where a first child and a later child of the same parent both
\* get that parent and are both among its children
C15_Witness ==
    /\ Stored
    /\ ThreeGenerations
    /\ \E p \in TreeIds :
          /\ Len(heap[p].children_ids) >= 2
          /\ \A k \in 1..Len(heap[p].children_ids) :
                /\ get_parent(World, heap[p].children_ids[k]).id = p
                /\ navigate_to_parent(store, heap[p].children_ids[k]).id = p
          /\ Len(get_children(World, p)) = Len(heap[p].children_ids)

\* ---------------------------------------------------------------------- C16
\* C16: on a built tree (whose parent chains are acyclic) get_breadcrumb_path
\* of any node returns the path from the root to the node: its first entry is
\* the root, its last entry the node, each entry is the parent of the next,
\* and each entry carries the level of its node.
C16_BreadcrumbRootToNode ==
    Stored =>
        \A n \in DOMAIN store.nodes :
            LET path == get_breadcrumb_path(store, n)
            IN /\ Len(path) >= 1
               /\ path[1].id = tree.root_node_id
               /\ store.nodes[path[1].id].parent_id = None
               /\ path[Len(path)].id = n
               /\ \A k \in 1..(Len(path) - 1) :
                     store.nodes[path[k + 1].id].parent_id = path[k].id
               /\ \A k \in 1..Len(path) : path[k].level = store.nodes[path[k].id].level

\* a stored tree with a leaf whose breadcrumb has three entries or more
C16_Witness ==
    /\ Stored
    /\ \E n \in DOMAIN store.nodes :
          /\ is_leaf(store.nodes[n])
          /\ Len(get_breadcrumb_path(store, n)) >= 3
          /\ get_breadcrumb_path(store, n)[1].id = tree.root_node_id

\* ---------------------------------------------------------------------- C17
\* the position of n in the children_ids of its parent
PositionOf(n) ==
    CHOOSE k \in 1..Len(heap[heap[n].parent_id].children_ids) :
        heap[heap[n].parent_id].children_ids[k] = n

\* the neighbour of n that is d places further in its parent's children_ids,
\* absent when n is the root or the place is outside the list
NeighbourId(n, d) ==
    IF heap[n].parent_id = None THEN None
    ELSE LET siblings == heap[heap[n].parent_id].children_ids
         IN IF PositionOf(n) + d \in 1..Len(siblings)
            THEN siblings[PositionOf(n) + d] ELSE None

\* C17: next sibling and previous sibling of a node are the entries right after
\* and right before its id in its parent's children_ids, absent for the last
\* child, the first child and the root; where the next sibling of n is m, the
\* previous sibling of m is n. This holds for TreeNavigator over the store and
\* for DocumentTree.get_next_sibling and get_previous_sibling.
C17_SiblingsAreAdjacent ==
    Stored =>
        \A n \in TreeIds :
            /\ navigate_to_next_sibling(store, n).id = NeighbourId(n, 1)
            /\ navigate_to_previous_sibling(store, n).id = NeighbourId(n, -1)
            /\ get_next_sibling(World, n).id = NeighbourId(n, 1)
            /\ get_previous_sibling(World, n).id = NeighbourId(n, -1)
            /\ LET m == navigate_to_next_sibling(store, n)
               IN m # NoNode => /\ navigate_to_previous_sibling(store, m.id).id = n
                                /\ get_previous_sibling(World, m.id).id = n

\* a stored tree with a parent of three children: the middle one has both
\* neighbours, the first no previous and the last no next sibling
C17_Witness ==
    /\ Stored
    /\ \E p \in TreeIds :
          LET c == heap[p].children_ids
          IN /\ Len(c) >= 3
             /\ navigate_to_next_sibling(store, c[2]).id = c[3]
             /\ navigate_to_previous_sibling(store, c[2]).id = c[1]
             /\ navigate_to_previous_sibling(store, c[1]) = NoNode
             /\ navigate_to_next_sibling(store, c[Len(c)]) = NoNode
             /\ navigate_to_next_sibling(store, tree.root_node_id) = NoNode

\* ---------------------------------------------------------------------- C18
\* C18: every navigation operation called with an identifier the store does
\* not know answers absent or empty and raises nothing (parent, next and
\* previous sibling, next and previous leaf: absent; children, breadcrumb and
\* outline: the empty list; navigation context: the empty dictionary), and no
\* navigation call changes the stored tree.
C18_UnknownIdIsAbsent ==
    /\ [](pc = "navigated" /\ nav.node_id \notin DOMAIN store.nodes
             => /\ nav.parent = NoNode
                /\ nav.children = <<>>
                /\ nav.next_sibling = NoNode
                /\ nav.previous_sibling = NoNode
                /\ nav.breadcrumb_path = <<>>
                /\ nav.navigation_context = EmptyDict
                /\ nav.next_leaf = NoNode
                /\ nav.previous_leaf = NoNode)
    /\ [](pc = "outlined" /\ nav.document_id # DocId => nav.outline = <<>>)
    /\ [](pc = "stored" => \A u \in {0, None, Len(heap) + 1} :
             /\ get_node(World, u) = NoNode
             /\ get_children(World, u) = <<>>
             /\ get_parent(World, u) = NoNode
             /\ get_next_sibling(World, u) = NoNode
             /\ get_previous_sibling(World, u) = NoNode
             /\ get_path_to_root(World, u) = <<>>)
    /\ [][pc = "stored" => store' = store /\ heap' = heap /\ tree' = tree]_vars

\* the navigator has answered a call with an identifier that no node of a
\* stored tree of several nodes has
C18_Witness ==
    /\ pc = "navigated"
    /\ Len(store.nodes) >= 3
    /\ nav.node_id = Len(store.nodes) + 1
    /\ nav.navigation_context = EmptyDict

\* ---------------------------------------------------------------------- C19
\* C19: a node whose parent_id or one of whose children_ids names a node that
\* is not in the tree's mapping is rejected when the tree is assembled: no tree
\* that add_node or from_dict has produced holds a node with a parent_id or a
\* child id outside tree.nodes.
C19_NoDanglingReference ==
    pc \in {"assemble", "loaded"} =>
        \A n \in TreeIds :
            /\ heap[n].parent_id = None \/ heap[n].parent_id \in TreeIds
            /\ Range(heap[n].children_ids) \subseteq TreeIds

\* ---------------------------------------------------------------------- C20
\* find_similar_nodes has returned
Ranked == pc = "ranked"

\* the results are in the order of falling similarity, none is below the
\* threshold and each is a node of the tree that has a vector
WellRanked ==
    /\ \A k \in 1..(Len(results) - 1) : RatioGE(results[k][2], results[k + 1][2])
    /\ \A k \in 1..Len(results) :
          /\ RatioGE(results[k][2], threshold)
          /\ results[k][1].id \in TreeIds
          /\ results[k][1] = heap[results[k][1].id]
          /\ HasVector(results[k][1].embedding)
          /\ results[k][2] = compute_similarity(query_embedding, results[k][1].embedding)

\* C20: for every query vector, candidate tree, threshold and top_k,
\* find_similar_nodes returns at most top_k results (none when top_k is below
\* zero), ordered by non-increasing similarity, none with a similarity below
\* the threshold and none whose vector is absent.
C20_RankedTopK ==
    Ranked => /\ Len(results) <= Max(top_k, 0)
              /\ WellRanked

\* what holds for every input: the results are well ranked, and when top_k is
\* a count (top_k >= 0) there are at most top_k of them
RankedTopKOfCounts ==
    Ranked => /\ top_k >= 0 => Len(results) <= top_k
              /\ WellRanked

\* ---------------------------------------------------------------------- C21
\* the position of a node id in the enumeration of tree.nodes
EnumPos(id) == IndexOf(tree.nodes, id)

\* the ids of the results
ResultIds == {results[k][1].id : k \in 1..Len(results)}

\* the similarity of node n to the query
SimilarityOf(n) == compute_similarity(query_embedding, heap[n].embedding)

\* C21: results of exactly equal similarity come in the order in which
\* tree.nodes enumerates their nodes, and of two equally similar candidates
\* the later-enumerated one is never returned without the earlier one: when
\* the top_k cut falls between them, the earlier one is kept.
C21_TiesKeepEnumerationOrder ==
    Ranked =>
        /\ \A j, k \in 1..Len(results) :
              j < k /\ RatioEQ(results[j][2], results[k][2])
                  => EnumPos(results[j][1].id) < EnumPos(results[k][1].id)
        /\ \A a, b \in TreeIds :
              /\ EnumPos(a) < EnumPos(b)
              /\ HasVector(heap[a].embedding) /\ HasVector(heap[b].embedding)
              /\ RatioEQ(SimilarityOf(a), SimilarityOf(b))
              /\ b \in ResultIds
              => a \in ResultIds

\* three equally similar candidates and a cut after the second: the first two
\* are returned, in their order
C21_Witness ==
    /\ Ranked
    /\ top_k = 2
    /\ Len(tree.nodes) = 3
    /\ \A n \in TreeIds : HasVector(heap[n].embedding)
                           /\ RatioEQ(SimilarityOf(n), SimilarityOf(1))
                           /\ RatioGE(SimilarityOf(n), threshold)
    /\ heap[1].embedding # heap[2].embedding
    /\ Len(results) = 2
    /\ results[1][1].id = 1 /\ results[2][1].id = 2

\* ---------------------------------------------------------------------- C22
\* the pairs of vector values of a call that is about to be made: the query
\* with the embedding of a node, in either order
PairsAtHand ==
    {<<query_embedding, heap[n].embedding>> : n \in DOMAIN heap}
        \cup {<<heap[n].embedding, query_embedding>> : n \in DOMAIN heap}

\* absent, empty, or of zero magnitude
Degenerate(e) == ~e.present \/ Len(e.vec) = 0 \/ dot(e.vec, e.vec) = 0

\* C22: compute_similarity (and the database's _compute_cosine_similarity)
\* returns 0.0, and divides by nothing that is zero, whenever either vector is
\* absent, empty or of zero magnitude; for other vectors the divisor is
\* positive.
C22_DegenerateIsZero ==
    /\ pc = "rank" =>
          \A pair \in PairsAtHand :
              LET e1 == pair[1]
                  e2 == pair[2]
              IN IF Degenerate(e1) \/ Degenerate(e2)
                 THEN /\ compute_similarity(e1, e2) = Ratio(0, 1)
                      /\ _compute_cosine_similarity(e1, e2) = Ratio(0, 1)
                 ELSE /\ compute_similarity(e1, e2).den > 0
                      /\ _compute_cosine_similarity(e1, e2).den > 0
    /\ Ranked => \A k \in 1..Len(results) :
                     Degenerate(query_embedding) \/ Degenerate(results[k][1].embedding)
                         => results[k][2] = Ratio(0, 1)

\* a ranking with a zero-magnitude query against a node that has a proper
\* vector: the node is returned with similarity 0.0
C22_Witness ==
    /\ Ranked
    /\ query_embedding = Embedding(<<0, 0>>)
    /\ Len(results) >= 1
    /\ results[1][1].embedding = Embedding(<<3, 4>>)
    /\ results[1][2] = Ratio(0, 1)

\* ---------------------------------------------------------------------- C26
\* the nodes of the tree that have children
Parents == {n \in TreeIds : Len(heap[n].children_ids) > 0}

\* C26: in a built tree every node with children starts at the least
\* page_start and ends at the greatest page_end of its children, every node
\* has page_start <= page_end, and the root runs from the first chunk's first
\* page to the last page of the chunks.
C26_PageRangesCoverChildren ==
    Built =>
        /\ \A n \in Parents :
              /\ heap[n].page_start =
                     MinOf({heap[c].page_start : c \in Range(heap[n].children_ids)})
              /\ heap[n].page_end =
                     MaxOf({heap[c].page_end : c \in Range(heap[n].children_ids)})
        /\ \A n \in TreeIds : heap[n].page_start <= heap[n].page_end
        /\ heap[tree.root_node_id].page_start = chunks[1].page_start
        /\ heap[tree.root_node_id].page_end = pages[Len(pages)].page_number

\* a tree of three generations from overlapping chunks, with a page that
\* failed to extract
C26_Witness ==
    /\ Built
    /\ ThreeGenerations
    /\ overlap_pages > 0
    /\ pdf.failed > 0
    /\ heap[tree.root_node_id].page_start < heap[tree.root_node_id].page_end

\* ---------------------------------------------------------------------- C28
\* the page numbers of one chunk
ChunkPages(c) == {pages[k].page_number : k \in {j \in 1..Len(pages) :
                     c.page_start <= pages[j].page_number
                     /\ pages[j].page_number <= c.page_end}}

\* C28: every chunk after the first holds a page that no earlier chunk holds,
\* and the range of no chunk lies wholly inside the range of the chunk before
\* it.
C28_EveryChunkAddsAPage ==
    \A k \in 2..Len(chunks) :
        /\ \E p \in ChunkPages(chunks[k]) :
              \A j \in 1..(k - 1) : p \notin ChunkPages(chunks[j])
        /\ ~(/\ chunks[k - 1].page_start <= chunks[k].page_start
              /\ chunks[k].page_end <= chunks[k - 1].page_end)

\* ---------------------------------------------------------------------- C25
\* C25: after any sequence of add_child calls, no children_ids list holds an
\* id twice, and every node listed in p.children_ids has parent_id = p.id.
C25_ChildrenAndParentAgree ==
    pc = "link" =>
        \A p \in DOMAIN heap :
            /\ \A c \in Range(heap[p].children_ids) : Count(heap[p].children_ids, c) = 1
            /\ \A c \in Range(heap[p].children_ids) : heap[c].parent_id = heap[p].id

\* ---------------------------------------------------------------------- C23
\* the second build has returned
BuiltTwice == pc = "done" /\ Len(built) = 1

\* the node of the second tree that corresponds to node id of the first: the
\* one at the same place in the enumeration of the tree's nodes
Renamed(id) == IF id = None THEN None ELSE tree.nodes[IndexOf(built[1].nodes, id)]

\* the list of ids with every id renamed
RenamedList(ids) == [k \in 1..Len(ids) |-> Renamed(ids[k])]

Summarized == SubSeq(summary_order(World), 1, cursor)

\* C24: while generate_summaries_for_tree runs on a built tree, every node
\* with children whose summary has been generated was handled after all of
\* its children.
C24_ChildrenSummarizedFirst ==
    pc = "summarize" =>
        \A k \in 1..Len(Summarized) :
            \A c \in Range(heap[Summarized[k]].children_ids) :
                \E j \in 1..(k - 1) : Summarized[j] = c

\* ---------------------------------------------------------------------- C29
\* the steps of process_document in their order
StepOrder ==
    {<<"split", "leaves">>, <<"leaves", "build">>, <<"build", "group">>,
     <<"build", "done">>, <<"group", "done">>, <<"done", "summarize">>,
     <<"summarize", "embed">>, <<"embed", "store">>, <<"store", "processed">>,
     <<"processed", "searched">>}

\* every node of the tree is in the database as it is in memory, under the
\* document
AllStored ==
    \A n \in TreeIds :
        /\ heap[n].id \in DOMAIN store.nodes
        /\ store.nodes[heap[n].id] = stored_node(heap[n])
        /\ <<tree.document_id, heap[n].id>> \in store.contains

\* C29: process_document goes from step to step in the order split,
\* summarize, embed, store; no provider failure ends the run (the loops over
\* the nodes always have a next step), and the tree that is stored holds
\* every node the splitter built.
C29_FailuresDoNotAbort ==
    /\ [][pc' # pc => <<pc, pc'>> \in StepOrder]_vars
    /\ [](pc # "aborted")
    /\ [](pc = "summarize" => cursor <= Len(summary_order(World)))
    /\ [](pc = "embed" => cursor <= Len(get_leaf_nodes(World)))
    /\ [](pc \in {"store", "processed"} => TreeIds = DOMAIN heap)
    /\ [](pc = "processed" => AllStored)

\* a stored tree of three leaves of which one has the placeholder summary and
\* one has no vector
C29_Witness ==
    /\ pc = "processed"
    /\ Len(leaf_nodes) = 3
    /\ \E n \in Range(leaf_nodes) : heap[n].summary = SummaryUnavailable
    /\ \E n \in Range(leaf_nodes) : ~heap[n].embedding.present
    /\ \E n \in Range(leaf_nodes) : heap[n].embedding.present
    /\ AllStored
    /\ Cardinality(DOMAIN store.nodes) = 6

\* ---------------------------------------------------------------------- C30
\* C30: from generate_embeddings_for_tree on, only nodes without children
\* carry an embedding, and neither find_similar_nodes nor search_in_tree
\* returns a node that has children.
C30_OnlyLeavesEmbedded ==
    /\ pc \in {"embed", "store", "processed", "searched"} =>
          \A n \in TreeIds :
              heap[n].embedding.present => Len(heap[n].children_ids) = 0
    /\ pc = "searched" =>
          \A k \in 1..Len(results) : Len(results[k][1].children_ids) = 0

\* a search over a tree whose root has a summary of its own and no vector: the
\* two leaves are returned
C30_Witness ==
    /\ pc = "searched"
    /\ Len(results) = 2
    /\ Len(heap[tree.root_node_id].children_ids) = 2
    /\ heap[tree.root_node_id].summary = ProviderSynthesis(2)
    /\ ~heap[tree.root_node_id].embedding.present

\* ---------------------------------------------------------------------- C27
\* the similarity of the stored node id to the query
StoredSimilarity(id) ==
    _compute_cosine_similarity(query_embedding, store.nodes[id].embedding)

\* the stored nodes that carry a vector, belong to the document asked for (if
\* one is given) and score at or above the threshold
Qualifying ==
    {id \in DOMAIN store.nodes :
        /\ document_filter.present /\ document_filter.id # ""
               => store.nodes[id].document_id = document_filter.id
        /\ HasVector(store.nodes[id].embedding)
        /\ RatioGE(StoredSimilarity(id), threshold)}

\* the ids of the nodes search returned
FoundIds == {results[k][1].id : k \in 1..Len(results)}

\* C27: for a query whose embedding is present, search returns the top_k
\* best of all stored nodes that qualify: top_k of them (all, if fewer
\* qualify), each one qualifying, and none less similar than a qualifying node
\* that was left out.
C27_SearchRanksEveryNode ==
    pc = "found" /\ HasVector(query_embedding) =>
        /\ Len(results) = Min(top_k, Cardinality(Qualifying))
        /\ FoundIds \subseteq Qualifying
        /\ \A out \in Qualifying \ FoundIds :
              \A k \in 1..Len(results) :
                  RatioGE(results[k][2], StoredSimilarity(out))

====
